---------------------------- MODULE Spec2Model ----------------------------
(***************************************************************************)
(* Kit allocation / purchase engine of the rotables simulation             *)
(* (strategy.py: class Strategy) together with the hourly driver loop      *)
(* that calls it (main.py: run_simulation).                                *)
(*                                                                         *)
(* State: the Flight Registry (flights), the departure-tick index          *)
(* (departures), the Inventory Ledger (inventory) and the Processing Queue *)
(* (processing_queue) of one Strategy instance, the driver's clock and     *)
(* position in its loop, the values last returned by the engine, and a     *)
(* history record of the engine state before the last engine call.         *)
(***************************************************************************)
EXTENDS Integers, Sequences, FiniteSets, TLC

VARIABLES
    world,              \* static reference data (NetworkState): airports, aircraft_types
    pool,               \* the flight-update events the server may send in this run
    current_day,        \* driver clock, main.py:234
    current_hour,       \* driver clock, main.py:235
    pc,                 \* position of the driver inside one loop iteration
    rounds,             \* loop iterations started so far
    sent,               \* flight-update events delivered so far
    flights,            \* Strategy.flights : flight id -> FlightInfo
    departures,         \* Strategy.departures : (day, hour) -> list of flight ids
    inventory,          \* Strategy.inventory : airport code -> class -> quantity
    processing_queue,   \* Strategy.processing_queue : list of ProcessingJob
    loads,              \* value returned by the last decide_kit_loads
    orders,             \* value returned by the last decide_purchases
    resp,               \* response handed to the last update_state
    before,             \* engine state before the last engine call (history)
    probe               \* a call of one Forecaster or time helper: arguments, answers

vars == <<world, pool, current_day, current_hour, pc, rounds, sent, flights,
          departures, inventory, processing_queue, loads, orders, resp, before,
          probe>>

-----------------------------------------------------------------------------
(* Bounds of the exploration *)

\* loop iterations followed from the start tick of a run
MaxRounds == 14
\* loop iterations (counted from the first) whose response may carry events
MaxEventRounds == 3
\* flight-update events delivered in one run
MaxEvents == 3
\* flight-update events in one response
MaxBatch == 2
\* flights in the Registry handed to a demand query
MaxKnown == 3
\* jobs in the Processing Queue handed to the supply query
MaxQueued == 2
\* last day of the ticks handed to the time helpers
MaxDay == 2
\* largest hour delta handed to _add_hours
MaxDelta == 49

-----------------------------------------------------------------------------
(* Program constants *)

CLASS_ORDER == <<"FIRST", "BUSINESS", "PREMIUM_ECONOMY", "ECONOMY">>

Classes == {CLASS_ORDER[i] : i \in 1..Len(CLASS_ORDER)}

EVENT_CLASS_KEYS ==
    [c \in Classes |->
        CASE c = "FIRST" -> "first"
          [] c = "BUSINESS" -> "business"
          [] c = "PREMIUM_ECONOMY" -> "premiumEconomy"
          [] c = "ECONOMY" -> "economy"]

TOTAL_GAME_HOURS == 720

HUB == "HUB1"

\* Optional[str] = None of ProcessingJob.flight_id, and an absent aircraftType
None == "None"

\* mutant of lead_times: every purchase is delivered one hour after the end
\* of the horizon of its class
LeadBeyondHorizon ==
    [c \in Classes |->
        CASE c = "FIRST" -> 49
          [] c = "BUSINESS" -> 37
          [] c = "PREMIUM_ECONOMY" -> 25
          [] c = "ECONOMY" -> 13]

lead_times ==
    [c \in Classes |->
        CASE c = "FIRST" -> 48
          [] c = "BUSINESS" -> 36
          [] c = "PREMIUM_ECONOMY" -> 24
          [] c = "ECONOMY" -> 12]

purchase_horizon ==
    [c \in Classes |->
        CASE c = "FIRST" -> 48
          [] c = "BUSINESS" -> 36
          [] c = "PREMIUM_ECONOMY" -> 24
          [] c = "ECONOMY" -> 12]

\* purchase_buffer as a fraction num/den: 0.1, 0.1, 0.05, 0.0
purchase_buffer ==
    [c \in Classes |->
        CASE c = "FIRST" -> <<1, 10>>
          [] c = "BUSINESS" -> <<1, 10>>
          [] c = "PREMIUM_ECONOMY" -> <<1, 20>>
          [] c = "ECONOMY" -> <<0, 1>>]

purchase_cap_extra ==
    [c \in Classes |->
        CASE c = "FIRST" -> 20
          [] c = "BUSINESS" -> 40
          [] c = "PREMIUM_ECONOMY" -> 40
          [] c = "ECONOMY" -> 8]

\* window_hours of the destination forecast, strategy.py:165
window_hours == 36

\* hours added to the processing time at enqueue and at reschedule
safety_margin == 2

\* ECONOMY orders stop when fewer hours than this remain, strategy.py:272
economy_cutoff == 18

-----------------------------------------------------------------------------
(* Small helpers *)

Min(a, b) == IF a <= b THEN a ELSE b

Max(a, b) == IF a >= b THEN a ELSE b

\* a per-class map {cls: ...} in CLASS_ORDER
K(f, b, p, e) ==
    [c \in Classes |->
        CASE c = "FIRST" -> f
          [] c = "BUSINESS" -> b
          [] c = "PREMIUM_ECONOMY" -> p
          [] c = "ECONOMY" -> e]

\* {cls: 0 for cls in CLASS_ORDER}
ZeroMap == [c \in Classes |-> 0]

\* dict.get(key, default)
Get(d, k, default) == IF k \in DOMAIN d THEN d[k] ELSE default

\* d[k] = v on a dict (insert or overwrite)
Put(d, k, v) == [x \in (DOMAIN d) \cup {k} |-> IF x = k THEN v ELSE d[x]]

RECURSIVE SumOver(_, _)
\* sum of f[x] over the finite set S
SumOver(S, f) ==
    IF S = {} THEN 0
    ELSE LET x == CHOOSE y \in S : TRUE
         IN  f[x] + SumOver(S \ {x}, f)

-----------------------------------------------------------------------------
(* Time arithmetic, strategy.py:391-409 *)

_time_to_int(reference) == reference[1] * 24 + reference[2]

\* mutant of _add_hours: days and hours are added apart, without carry
AddHoursNoCarry(reference, delta_hours) ==
    <<reference[1] + (delta_hours \div 24), reference[2] + (delta_hours % 24)>>

\* divmod(total_hours, 24)
_add_hours(reference, delta_hours) ==
    LET total_hours == reference[1] * 24 + reference[2] + delta_hours
    IN  <<total_hours \div 24, total_hours % 24>>

\* mutant of _time_leq: day and hour are compared apart
LeqEachPart(left, right) == left[1] <= right[1] /\ left[2] <= right[2]

_time_leq(left, right) ==
    left[1] < right[1] \/ (left[1] = right[1] /\ left[2] <= right[2])

-----------------------------------------------------------------------------
(* Demand Forecaster, strategy.py:321-370 *)

\* passengers of class cls on the flights selected by Sel (a set of flight ids)
PaxSum(fl, Sel, cls) == SumOver(Sel, [f \in Sel |-> fl[f].passengers[cls]])

\* mutant of _future_demand_for_airport: a departure at the start tick is counted
DemandFromStartOn(fl, airport_code, start_time, wh) ==
    LET start_int == _time_to_int(start_time)
        Sel == {f \in DOMAIN fl :
                   /\ fl[f].origin = airport_code
                   /\ start_int <= _time_to_int(fl[f].departure)
                   /\ _time_to_int(fl[f].departure) <= start_int + wh}
    IN  [cls \in Classes |-> PaxSum(fl, Sel, cls)]

_future_demand_for_airport(fl, airport_code, start_time, wh) ==
    LET start_int == _time_to_int(start_time)
        end_int == start_int + wh
        Sel == {f \in DOMAIN fl :
                   /\ fl[f].origin = airport_code
                   /\ start_int < _time_to_int(fl[f].departure)
                   /\ _time_to_int(fl[f].departure) <= end_int}
    IN  [cls \in Classes |-> PaxSum(fl, Sel, cls)]

\* cls_filter = None sums every class; otherwise only cls_filter is summed
_future_demand_from_hub(fl, current_time, wh, cls_filter) ==
    LET start_int == _time_to_int(current_time)
        end_int == start_int + wh
        Sel == {f \in DOMAIN fl :
                   /\ fl[f].origin = HUB
                   /\ start_int <= _time_to_int(fl[f].departure)
                   /\ _time_to_int(fl[f].departure) <= end_int}
    IN  [cls \in Classes |->
            IF cls_filter # None /\ cls # cls_filter THEN 0
            ELSE PaxSum(fl, Sel, cls)]

\* mutant of _incoming_kits: a job ready at the last tick of the window is
\* not counted
IncomingBeforeEnd(queue, airport_code, current_time, wh, cls_filter) ==
    LET start_int == _time_to_int(current_time)
        Sel == {i \in 1..Len(queue) :
                   /\ queue[i].airport = airport_code
                   /\ start_int <= _time_to_int(queue[i].ready_time)
                   /\ _time_to_int(queue[i].ready_time) < start_int + wh
                   /\ (cls_filter = None \/ queue[i].kit_class = cls_filter)}
    IN  [cls \in Classes |->
            LET SelC == {i \in Sel : queue[i].kit_class = cls}
            IN  SumOver(SelC, [i \in SelC |-> queue[i].quantity])]

\* mutant of _incoming_kits: the airport of a job is not compared
IncomingAnywhere(queue, airport_code, current_time, wh, cls_filter) ==
    LET start_int == _time_to_int(current_time)
        Sel == {i \in 1..Len(queue) :
                   /\ start_int <= _time_to_int(queue[i].ready_time)
                   /\ _time_to_int(queue[i].ready_time) <= start_int + wh
                   /\ (cls_filter = None \/ queue[i].kit_class = cls_filter)}
    IN  [cls \in Classes |->
            LET SelC == {i \in Sel : queue[i].kit_class = cls}
            IN  SumOver(SelC, [i \in SelC |-> queue[i].quantity])]

_incoming_kits(queue, airport_code, current_time, wh, cls_filter) ==
    LET start_int == _time_to_int(current_time)
        end_int == start_int + wh
        Sel == {i \in 1..Len(queue) :
                   /\ queue[i].airport = airport_code
                   /\ start_int <= _time_to_int(queue[i].ready_time)
                   /\ _time_to_int(queue[i].ready_time) <= end_int
                   /\ (cls_filter = None \/ queue[i].kit_class = cls_filter)}
    IN  [cls \in Classes |->
            LET SelC == {i \in Sel : queue[i].kit_class = cls}
            IN  SumOver(SelC, [i \in SelC |-> queue[i].quantity])]

-----------------------------------------------------------------------------
(* Inventory Ledger and Processing Queue, strategy.py:286-319, 372-389 *)

\* self.inventory.setdefault(code, {cls: 0 for cls in CLASS_ORDER})
SetDefault(inv, code) == IF code \in DOMAIN inv THEN inv ELSE Put(inv, code, ZeroMap)

\* mutant of IsReady: a job whose ready tick is the current tick stays queued
IsReadyStrict(job, now) == _time_leq(job.ready_time, now) /\ job.ready_time # now

\* the test that moves a job to the ready list, strategy.py:293
IsReady(job, now) == _time_leq(job.ready_time, now)

RECURSIVE CreditJobs(_, _)
\* strategy.py:298-300, the ready jobs credited in queue order
CreditJobs(inv, ready) ==
    IF ready = <<>> THEN inv
    ELSE LET job == Head(ready)
             inv1 == SetDefault(inv, job.airport)
             inv2 == [inv1 EXCEPT ![job.airport][job.kit_class] = @ + job.quantity]
         IN  CreditJobs(inv2, Tail(ready))

\* mutant of _release_completed_processing: the ready jobs leave the queue
\* without being credited
ReleaseWithoutCredit(inv, queue, now) ==
    [inventory |-> inv,
     processing_queue |-> SelectSeq(queue, LAMBDA job : ~IsReady(job, now))]

_release_completed_processing(inv, queue, now) ==
    LET ready == SelectSeq(queue, LAMBDA job : IsReady(job, now))
        pending == SelectSeq(queue, LAMBDA job : ~IsReady(job, now))
    IN  [inventory |-> CreditJobs(inv, ready), processing_queue |-> pending]

ProcessingJob(ready_time, airport, kit_class, quantity, flight_id) ==
    [ready_time |-> ready_time, airport |-> airport, kit_class |-> kit_class,
     quantity |-> quantity, flight_id |-> flight_id]

RECURSIVE PurchaseJobs(_, _, _)
\* strategy.py:308-319, over the classes of orders from position i on
PurchaseJobs(orders_, now, i) ==
    IF i > Len(CLASS_ORDER) THEN <<>>
    ELSE LET cls == CLASS_ORDER[i]
             qty == orders_[cls]
         IN  (IF qty <= 0 THEN <<>>
              ELSE <<ProcessingJob(_add_hours(now, lead_times[cls]), HUB, cls, qty, None)>>)
             \o PurchaseJobs(orders_, now, i + 1)

\* mutant of _schedule_purchase_delivery: the lead time is not added
DeliverAtOnce(queue, now, orders_) ==
    queue \o [k \in 1..Len(PurchaseJobs(orders_, now, 1)) |->
                 [PurchaseJobs(orders_, now, 1)[k] EXCEPT !.ready_time = now]]

_schedule_purchase_delivery(queue, now, orders_) == queue \o PurchaseJobs(orders_, now, 1)

\* the ready tick given to a job of class cls of a flight arriving at dest
ReadyTime(arrival, dest, cls) ==
    _add_hours(arrival, world.airports[dest].processing_time[cls] + safety_margin)

\* mutant of _reschedule_processing_for_flight: the flight tag is not compared
RescheduleEveryJob(queue, flight_id, new_arrival, destination) ==
    IF destination \notin DOMAIN world.airports THEN queue
    ELSE [i \in 1..Len(queue) |->
            [queue[i] EXCEPT
                !.ready_time = ReadyTime(new_arrival, destination, queue[i].kit_class)]]

\* mutant of _reschedule_processing_for_flight: the margin of the earlier
\* variant (one hour) is added instead of the margin of the enqueue
RescheduleShortMargin(queue, flight_id, new_arrival, destination) ==
    IF destination \notin DOMAIN world.airports THEN queue
    ELSE [i \in 1..Len(queue) |->
            IF queue[i].flight_id # flight_id THEN queue[i]
            ELSE [queue[i] EXCEPT
                     !.ready_time =
                         _add_hours(new_arrival,
                             world.airports[destination].processing_time[queue[i].kit_class]
                             + 1)]]

_reschedule_processing_for_flight(queue, flight_id, new_arrival, destination) ==
    IF destination \notin DOMAIN world.airports THEN queue
    ELSE [i \in 1..Len(queue) |->
            IF queue[i].flight_id # flight_id THEN queue[i]
            ELSE [queue[i] EXCEPT
                     !.ready_time = ReadyTime(new_arrival, destination, queue[i].kit_class)]]

-----------------------------------------------------------------------------
(* Outbound records, api_client.py:117-129 *)

EventKeys == {EVENT_CLASS_KEYS[c] : c \in Classes}

create_per_class_amount(first, business, premium, economy) ==
    [k \in EventKeys |->
        CASE k = "first" -> first
          [] k = "business" -> business
          [] k = "premiumEconomy" -> premium
          [] k = "economy" -> economy]

create_flight_load(flight_id, first, business, premium, economy) ==
    [flightId |-> flight_id,
     loadedKits |-> create_per_class_amount(first, business, premium, economy)]

-----------------------------------------------------------------------------
(* Flight Registry: update_state, strategy.py:87-130 *)

\* a JSON null
Null == [null |-> TRUE]

\* the keys read with event[...], strategy.py:96-111
RequiredKeys == {"flightId", "departure", "arrival", "originAirport", "destinationAirport"}

\* strategy.py:104: event.get('passengers', {}) or {}
FlightInfo(event) ==
    LET given == Get(event, "passengers", Null)
        passengers == IF given = Null THEN <<>> ELSE given
    IN  [flight_id |-> event.flightId,
         origin |-> event.originAirport,
         destination |-> event.destinationAirport,
         departure |-> event.departure,
         arrival |-> event.arrival,
         passengers |-> [c \in Classes |-> Get(passengers, EVENT_CLASS_KEYS[c], 0)],
         aircraft_type |-> Get(event, "aircraftType", None)]

\* mutant of IndexDeparture: the identifier is appended without the membership test
IndexAlways(deps, f_id, dep) == Put(deps, dep, Append(Get(deps, dep, <<>>), f_id))

\* strategy.py:125-126 on the defaultdict: the key is created by the lookup
IndexDeparture(deps, f_id, dep) ==
    LET cur == Get(deps, dep, <<>>)
    IN  IF \E i \in 1..Len(cur) : cur[i] = f_id THEN Put(deps, dep, cur)
        ELSE Put(deps, dep, Append(cur, f_id))

\* the condition of strategy.py:129
ShouldReschedule(fl, info) ==
    /\ info.flight_id \in DOMAIN fl
    /\ fl[info.flight_id].arrival # info.arrival
    /\ fl[info.flight_id].destination = info.destination

\* mutant of IsRecorded: events of every kind are recorded
RecordsEveryKind(event) == TRUE

\* the event kinds update_state records, strategy.py:96
IsRecorded(event) == event.eventType \in {"SCHEDULED", "CHECKED_IN"}

\* mutant of Upsert: the record of a known flight is kept as it is
UpsertIfNew(fl, info) == IF info.flight_id \in DOMAIN fl THEN fl ELSE Put(fl, info.flight_id, info)

\* strategy.py:124: self.flights[f_id] = info
Upsert(fl, info) == Put(fl, info.flight_id, info)

\* one iteration of the loop of strategy.py:94-130 on the engine state st
RecordEvent(st, event) ==
    IF ~IsRecorded(event) THEN st
    ELSE LET info == FlightInfo(event)
         IN  [st EXCEPT
                !.flights = Upsert(st.flights, info),
                !.departures = IndexDeparture(st.departures, info.flight_id, info.departure),
                !.processing_queue =
                    IF ShouldReschedule(st.flights, info)
                    THEN _reschedule_processing_for_flight(
                             st.processing_queue, info.flight_id, info.arrival, info.destination)
                    ELSE st.processing_queue]

\* event[...] of a key the event lacks raises KeyError, strategy.py:96-111
Raises(event) ==
    \/ "eventType" \notin DOMAIN event
    \/ IsRecorded(event) /\ ~(RequiredKeys \subseteq DOMAIN event)

RECURSIVE RecordEvents(_, _)
\* the loop of strategy.py:94, left at the first event that raises
RecordEvents(st, events) ==
    IF events = <<>> \/ Raises(Head(events)) THEN st
    ELSE RecordEvents(RecordEvent(st, Head(events)), Tail(events))

\* the falsy value play_round returns on failure (None)
NoResponse == [failed |-> TRUE]

\* strategy.py:91: not api_response
Falsy(api_response) == api_response = NoResponse

update_state(st, api_response) ==
    IF Falsy(api_response) \/ "flightUpdates" \notin DOMAIN api_response THEN st
    ELSE RecordEvents(st, api_response.flightUpdates)

\* update_state leaves by an exception
update_state_raises(api_response) ==
    /\ ~Falsy(api_response)
    /\ "flightUpdates" \in DOMAIN api_response
    /\ \E i \in 1..Len(api_response.flightUpdates) : Raises(api_response.flightUpdates[i])

-----------------------------------------------------------------------------
(* Allocation Engine: decide_kit_loads, strategy.py:132-236 *)

\* mutant of HubQty: the aircraft capacity is left out of the minimum
HubQtyNoCap(cap, hub_stock, dest_remaining_cap, calculated_need, pax_now) ==
    Min(hub_stock, Min(dest_remaining_cap, Min(calculated_need, pax_now)))

\* mutant of HubQty: the destination headroom is left out of the minimum
HubQtyNoHeadroom(cap, hub_stock, dest_remaining_cap, calculated_need, pax_now) ==
    Min(cap, Min(hub_stock, Min(calculated_need, pax_now)))

\* mutant of HubQty: the passenger count bounds the load only through the
\* calculated need
HubQtyUpToNeed(cap, hub_stock, dest_remaining_cap, calculated_need, pax_now) ==
    Min(cap, Min(hub_stock, Min(dest_remaining_cap, calculated_need)))

\* strategy.py:182
HubQty(cap, hub_stock, dest_remaining_cap, calculated_need, pax_now) ==
    Min(cap, Min(hub_stock, Min(dest_remaining_cap, Min(calculated_need, pax_now))))

\* mutant of OutstationQty: the passenger count is left out of the minimum
OutstationQtyNoPax(pax, cap, available) == Min(cap, available)

\* mutant of OutstationQty: the available stock is left out of the minimum
OutstationQtyNoStock(pax, cap, available) == Min(pax, cap)

\* mutant of OutstationQty: the aircraft capacity is left out of the minimum
OutstationQtyNoCap(pax, cap, available) == Min(pax, available)

\* strategy.py:195
OutstationQty(pax, cap, available) == Min(pax, Min(cap, available))

\* strategy.py:159-198: the quantity per class for one flight, read from the
\* ledger inv as it stands when the flight's turn comes
LoadPerClass(fl, inv, info, aircraft) ==
    IF info.origin = HUB
    THEN LET dest_inv == Get(inv, info.destination, ZeroMap)
             dest_cap == IF info.destination \in DOMAIN world.airports
                         THEN world.airports[info.destination].capacity
                         ELSE ZeroMap
             dest_future_need ==
                 _future_demand_for_airport(fl, info.destination, info.arrival, window_hours)
         IN  [cls \in Classes |->
                LET pax_now == info.passengers[cls]
                    cap == aircraft.kit_capacity[cls]
                    hub_stock == inv[info.origin][cls]
                    dest_stock == dest_inv[cls]
                    need == dest_future_need[cls]
                    dest_remaining_cap == Max(0, dest_cap[cls] - dest_stock)
                    calculated_need == pax_now + Max(0, need - dest_stock)
                IN  HubQty(cap, hub_stock, dest_remaining_cap, calculated_need, pax_now)]
    ELSE [cls \in Classes |->
            OutstationQty(info.passengers[cls], aircraft.kit_capacity[cls],
                          inv[info.origin][cls])]

\* mutant of Deduct: the tracker is not updated for the next flight in the loop
DeductNothing(inv, origin, load_per_class) == inv

\* strategy.py:185 and 198: origin_inv[cls] = stock - qty
Deduct(inv, origin, load_per_class) ==
    [inv EXCEPT ![origin] = [cls \in Classes |-> inv[origin][cls] - load_per_class[cls]]]

RECURSIVE ReturnJobs(_, _, _)
\* strategy.py:201-222, over the classes from position i on
ReturnJobs(info, load_per_class, i) ==
    IF info.destination \notin DOMAIN world.airports \/ i > Len(CLASS_ORDER) THEN <<>>
    ELSE LET cls == CLASS_ORDER[i]
             qty == load_per_class[cls]
         IN  (IF qty <= 0 THEN <<>>
              ELSE <<ProcessingJob(ReadyTime(info.arrival, info.destination, cls),
                                   info.destination, cls, qty, info.flight_id)>>)
             \o ReturnJobs(info, load_per_class, i + 1)

\* strategy.py:157-231: the flight info of a known aircraft type is loaded; inv1
\* is the ledger after the setdefault of strategy.py:148
AllocateKnown(st, inv1, info, load_per_class) ==
    [inventory |-> Deduct(inv1, info.origin, load_per_class),
     processing_queue |-> st.processing_queue \o ReturnJobs(info, load_per_class, 1),
     loads |-> Append(st.loads,
         create_flight_load(info.flight_id,
             load_per_class["FIRST"], load_per_class["BUSINESS"],
             load_per_class["PREMIUM_ECONOMY"], load_per_class["ECONOMY"]))]

\* mutant of AllocateFlight: a flight of an unknown aircraft type is skipped
\* without a load record
AllocateSkipUnknown(fl, st, flight_id) ==
    IF flight_id \notin DOMAIN fl THEN st
    ELSE LET info == fl[flight_id]
             inv1 == SetDefault(st.inventory, info.origin)
         IN  IF info.aircraft_type \notin DOMAIN world.aircraft_types
             THEN [st EXCEPT !.inventory = inv1]
             ELSE AllocateKnown(st, inv1, info,
                      LoadPerClass(fl, inv1, info, world.aircraft_types[info.aircraft_type]))

\* one iteration of the loop of strategy.py:142-231; st carries inventory,
\* processing_queue and the loads list built so far
AllocateFlight(fl, st, flight_id) ==
    IF flight_id \notin DOMAIN fl THEN st
    ELSE LET info == fl[flight_id]
             inv1 == SetDefault(st.inventory, info.origin)
         IN  IF info.aircraft_type \notin DOMAIN world.aircraft_types
             THEN [st EXCEPT
                     !.inventory = inv1,
                     !.loads = Append(@, create_flight_load(flight_id, 0, 0, 0, 0))]
             ELSE AllocateKnown(st, inv1, info,
                      LoadPerClass(fl, inv1, info, world.aircraft_types[info.aircraft_type]))

RECURSIVE AllocateFlights(_, _, _)
AllocateFlights(fl, st, flights_leaving_now) ==
    IF flights_leaving_now = <<>> THEN st
    ELSE AllocateFlights(fl, AllocateFlight(fl, st, Head(flights_leaving_now)),
                         Tail(flights_leaving_now))

\* mutant of ClearDeparted: the entry of the tick is kept
ClearNothing(deps, now) == deps

\* strategy.py:233-234
ClearDeparted(deps, now) == [t \in (DOMAIN deps) \ {now} |-> deps[t]]

\* result: the engine state after the call and the returned loads
\* mutant of decide_kit_loads: the matured jobs are credited after the
\* allocation instead of before it
AllocateBeforeRelease(st, now) ==
    LET out == AllocateFlights(st.flights,
                   [inventory |-> st.inventory,
                    processing_queue |-> st.processing_queue,
                    loads |-> <<>>],
                   Get(st.departures, now, <<>>))
        rel == _release_completed_processing(out.inventory, out.processing_queue, now)
    IN  [flights |-> st.flights,
         departures |-> ClearDeparted(st.departures, now),
         inventory |-> rel.inventory,
         processing_queue |-> rel.processing_queue,
         loads |-> out.loads]

decide_kit_loads(st, now) ==
    LET rel == _release_completed_processing(st.inventory, st.processing_queue, now)
        flights_leaving_now == Get(st.departures, now, <<>>)
        out == AllocateFlights(st.flights,
                   [inventory |-> rel.inventory,
                    processing_queue |-> rel.processing_queue,
                    loads |-> <<>>],
                   flights_leaving_now)
    IN  [flights |-> st.flights,
         departures |-> ClearDeparted(st.departures, now),
         inventory |-> out.inventory,
         processing_queue |-> out.processing_queue,
         loads |-> out.loads]

-----------------------------------------------------------------------------
(* Purchase Planner: decide_purchases, strategy.py:238-283 *)

\* int(x) of Python on the rational n/d, d > 0: truncation toward zero
IntTrunc(n, d) == IF n >= 0 THEN n \div d ELSE -((-n) \div d)

\* mutant of Target: the relative buffer is left out
TargetNoBuffer(demand, cls) == demand + purchase_cap_extra[cls]

\* strategy.py:263: int(demand * (1 + buffer)) + cap_extra
Target(demand, cls) ==
    LET num == purchase_buffer[cls][1]
        den == purchase_buffer[cls][2]
    IN  IntTrunc(demand * (den + num), den) + purchase_cap_extra[cls]

\* mutant of Suppressed: an order that would arrive exactly at the end is placed
SuppressedLate(current_int, cls) ==
    \/ current_int + lead_times[cls] > TOTAL_GAME_HOURS
    \/ (cls = "ECONOMY" /\ (TOTAL_GAME_HOURS - current_int) < economy_cutoff)

\* strategy.py:270-273: the order of cls is suppressed near the end of the game
Suppressed(current_int, cls) ==
    \/ current_int + lead_times[cls] >= TOTAL_GAME_HOURS
    \/ (cls = "ECONOMY" /\ (TOTAL_GAME_HOURS - current_int) < economy_cutoff)

\* mutant of OrderQty: the order is not limited by the hub capacity left
OrderQtyUncapped(shortfall, capacity, projected) == shortfall

\* strategy.py:275-276
OrderQty(shortfall, capacity, projected) == Min(shortfall, Max(0, capacity - projected))

\* strategy.py:252-276: the order of one class
OrderFor(st, now, cls) ==
    LET hub_stock == Get(st.inventory, HUB, ZeroMap)
        hub == world.airports[HUB]
        current_int == _time_to_int(now)
        demand == _future_demand_from_hub(st.flights, now, purchase_horizon[cls], cls)
        incoming == _incoming_kits(st.processing_queue, HUB, now, purchase_horizon[cls], cls)
        projected == hub_stock[cls] + incoming[cls]
        target == Target(demand[cls], cls)
    IN  IF projected >= target THEN 0
        ELSE IF Suppressed(current_int, cls) THEN 0
        ELSE OrderQty(target - projected, hub.capacity[cls], projected)

\* result: the engine state after the call and the returned order
decide_purchases(st, now) ==
    IF HUB \notin DOMAIN world.airports
    THEN [processing_queue |-> st.processing_queue,
          orders |-> create_per_class_amount(0, 0, 0, 0)]
    ELSE LET orders_ == [cls \in Classes |-> OrderFor(st, now, cls)]
         IN  [processing_queue |->
                    IF \E cls \in Classes : orders_[cls] > 0
                    THEN _schedule_purchase_delivery(st.processing_queue, now, orders_)
                    ELSE st.processing_queue,
              orders |-> create_per_class_amount(orders_["FIRST"], orders_["BUSINESS"],
                               orders_["PREMIUM_ECONOMY"], orders_["ECONOMY"])]

-----------------------------------------------------------------------------
(* Reference data and inbound events of the explored runs *)

Airport(processing_time, capacity, stock) ==
    [processing_time |-> processing_time, capacity |-> capacity, stock |-> stock]

AircraftType(kit_capacity) == [kit_capacity |-> kit_capacity]

\* one record of api_response['flightUpdates']
Event(eventType, flightId, origin, destination, departure, arrival, passengers, aircraftType) ==
    [eventType |-> eventType, flightId |-> flightId, originAirport |-> origin,
     destinationAirport |-> destination, departure |-> departure, arrival |-> arrival,
     passengers |-> passengers, aircraftType |-> aircraftType]

Pax(first, business, premium, economy) ==
    [first |-> first, business |-> business, premiumEconomy |-> premium, economy |-> economy]

\* a hub and two outstations; AC1 carries few BUSINESS kits, AAA has room for
\* few PREMIUM_ECONOMY kits, the hub has little BUSINESS room left
World1 ==
    [airports |->
        [a \in {"HUB1", "AAA", "BBB"} |->
            CASE a = "HUB1" -> Airport(K(1, 1, 1, 1), K(200, 41, 100, 60), K(100, 40, 40, 8))
              [] a = "AAA" -> Airport(K(1, 0, 0, 1), K(20, 20, 2, 60), K(0, 0, 0, 3))
              [] a = "BBB" -> Airport(K(3, 1, 1, 0), K(20, 20, 20, 60), K(5, 4, 1, 1))],
     aircraft_types |->
        [t \in {"AC1"} |-> AircraftType(K(10, 3, 10, 50))]]

\* two hub flights and an outstation flight leaving at the same tick, a
\* refinement of the first that moves its arrival, an outstation flight short
\* of ECONOMY stock, and a later hub flight to the same destination
PoolHub ==
    {Event("SCHEDULED", "F1", "HUB1", "AAA", <<0, 23>>, <<1, 0>>, Pax(4, 5, 3, 6), "AC1"),
     Event("SCHEDULED", "F2", "HUB1", "AAA", <<0, 23>>, <<1, 1>>, Pax(4, 0, 3, 6), "AC1"),
     Event("CHECKED_IN", "F1", "HUB1", "AAA", <<0, 23>>, <<1, 1>>, Pax(2, 5, 3, 6), "AC1"),
     Event("SCHEDULED", "F3", "AAA", "HUB1", <<1, 2>>, <<1, 3>>, Pax(1, 2, 0, 10), "AC1"),
     Event("SCHEDULED", "F4", "BBB", "AAA", <<0, 23>>, <<1, 0>>, Pax(2, 5, 0, 3), "AC1"),
     Event("SCHEDULED", "F5", "HUB1", "AAA", <<1, 3>>, <<1, 4>>, Pax(1, 2, 1, 0), "AC1")}

\* one hub flight whose arrival and destination move after it was announced
PoolMoves ==
    {Event("SCHEDULED", "F1", "HUB1", "AAA", <<0, 11>>, <<0, 12>>, Pax(4, 2, 0, 0), "AC1"),
     Event("CHECKED_IN", "F1", "HUB1", "AAA", <<0, 11>>, <<0, 13>>, Pax(4, 2, 0, 0), "AC1"),
     Event("CHECKED_IN", "F1", "HUB1", "BBB", <<0, 11>>, <<0, 13>>, Pax(4, 2, 0, 0), "AC1"),
     Event("CHECKED_IN", "F1", "HUB1", "ZZZ", <<0, 11>>, <<0, 13>>, Pax(4, 2, 0, 0), "AC1"),
     Event("CHECKED_IN", "F1", "HUB1", "ZZZ", <<0, 11>>, <<0, 14>>, Pax(4, 2, 0, 0), "AC1")}

\* one hub flight and its landing event, which carries a later arrival and
\* other passenger counts
PoolLanding ==
    {Event("SCHEDULED", "F1", "HUB1", "AAA", <<0, 11>>, <<0, 12>>, Pax(4, 2, 0, 0), "AC1"),
     Event("LANDED", "F1", "HUB1", "AAA", <<0, 11>>, <<0, 14>>, Pax(4, 1, 0, 0), "AC1")}

\* a hub flight, a flight that leaves its destination at the tick at which
\* the kits it brought are ready again, and a second hub flight that needs
\* more of the classes the first one made the hub order
PoolReturn ==
    {Event("SCHEDULED", "F1", "HUB1", "AAA", <<0, 1>>, <<0, 2>>, Pax(4, 2, 1, 0), "AC1"),
     Event("SCHEDULED", "F2", "AAA", "HUB1", <<0, 5>>, <<0, 6>>, Pax(2, 1, 0, 3), "AC1"),
     Event("SCHEDULED", "F3", "HUB1", "AAA", <<0, 3>>, <<0, 4>>, Pax(0, 3, 2, 0), "AC1")}

\* hub flights announced when 36 hours of the game remain
PoolEdge ==
    {Event("SCHEDULED", "F1", "HUB1", "AAA", <<28, 13>>, <<28, 14>>, Pax(0, 2, 0, 0), "AC1")}

\* flights announced in the last day of the game: a hub flight, a hub flight
\* with an aircraft type that is not in the World Reference, and an
\* outstation flight to an airport that is not in the World Reference
PoolLate ==
    {Event("SCHEDULED", "F1", "HUB1", "AAA", <<29, 7>>, <<29, 8>>, Pax(0, 2, 0, 6), "AC1"),
     Event("SCHEDULED", "F2", "HUB1", "BBB", <<29, 7>>, <<29, 8>>, Pax(0, 0, 1, 6), "UNKNOWN"),
     Event("SCHEDULED", "F3", "BBB", "ZZZ", <<29, 7>>, <<29, 8>>, Pax(2, 0, 0, 1), "AC1")}

\* the hub holds exactly the extra margin of every class and has room for
\* two more ECONOMY kits
World2 ==
    [airports |->
        [a \in {"HUB1", "AAA"} |->
            CASE a = "HUB1" -> Airport(K(1, 1, 1, 1), K(200, 100, 100, 10), K(20, 40, 40, 8))
              [] a = "AAA" -> Airport(K(1, 1, 1, 1), K(20, 20, 20, 60), K(0, 0, 0, 4))],
     aircraft_types |->
        [t \in {"AC1"} |-> AircraftType(K(10, 3, 10, 50))]]

\* two hub flights of one tick with 25 FIRST passengers each, the first of
\* them also announced for the next tick, a flight that brings ECONOMY kits
\* back to the hub and a later hub flight that needs them
PoolDemand ==
    {Event("SCHEDULED", "F1", "HUB1", "AAA", <<0, 1>>, <<0, 2>>, Pax(25, 0, 0, 0), "AC1"),
     Event("CHECKED_IN", "F1", "HUB1", "AAA", <<0, 2>>, <<0, 3>>, Pax(25, 0, 0, 0), "AC1"),
     Event("SCHEDULED", "F2", "HUB1", "AAA", <<0, 1>>, <<0, 3>>, Pax(25, 0, 0, 0), "AC1"),
     Event("SCHEDULED", "F3", "AAA", "HUB1", <<0, 1>>, <<0, 2>>, Pax(0, 0, 0, 4), "AC1"),
     Event("SCHEDULED", "F4", "HUB1", "AAA", <<0, 9>>, <<0, 10>>, Pax(0, 0, 0, 6), "AC1")}

Run(world_, start, pool_) == [world |-> world_, start |-> start, pool |-> pool_]

\* event without one of its keys
Without(event, key) == [k \in (DOMAIN event) \ {key} |-> event[k]]

\* partial events: no passenger map, a passenger map with one class, a null
\* passenger map, no departure, no event kind
PoolPartial ==
    {Without(Event("SCHEDULED", "F1", "HUB1", "AAA", <<0, 1>>, <<0, 2>>, <<>>, "AC1"),
             "passengers"),
     Event("CHECKED_IN", "F1", "HUB1", "AAA", <<0, 1>>, <<0, 2>>, [first |-> 2], "AC1"),
     Event("SCHEDULED", "F2", "BBB", "HUB1", <<0, 1>>, <<0, 2>>, Null, "AC1"),
     Without(Event("SCHEDULED", "F3", "HUB1", "AAA", <<0, 2>>, <<0, 3>>, Pax(1, 0, 0, 0), "AC1"),
             "departure"),
     Without(Event("LANDED", "F1", "HUB1", "AAA", <<0, 1>>, <<0, 2>>, Pax(1, 0, 0, 0), "AC1"),
             "eventType")}

\* events with a negative passenger count, from an outstation and from the hub
PoolSigned ==
    {Event("SCHEDULED", "F1", "BBB", "HUB1", <<0, 1>>, <<0, 2>>, Pax(2, 0, 0, -2), "AC1"),
     Event("SCHEDULED", "F2", "HUB1", "AAA", <<0, 1>>, <<0, 2>>, Pax(-1, 3, 0, 0), "AC1")}

\* reference data with a negative hub stock, a negative outstation capacity
\* and a negative aircraft kit capacity
World3 ==
    [airports |->
        [a \in {"HUB1", "AAA"} |->
            CASE a = "HUB1" -> Airport(K(1, 1, 1, 1), K(200, 100, 100, 60), K(100, 40, 40, -5))
              [] a = "AAA" -> Airport(K(1, 1, 1, 1), K(20, -3, 20, 60), K(0, 0, 0, 3))],
     aircraft_types |->
        [t \in {"AC1"} |-> AircraftType(K(10, 3, -4, 50))]]

PoolPlain ==
    {Event("SCHEDULED", "F1", "HUB1", "AAA", <<0, 1>>, <<0, 2>>, Pax(2, 2, 2, 6), "AC1"),
     Event("SCHEDULED", "F2", "AAA", "HUB1", <<0, 1>>, <<0, 2>>, Pax(0, 0, 1, 2), "AC1")}

MalformedRuns ==
    {Run(World1, <<0, 0>>, PoolPartial),
     Run(World1, <<0, 0>>, PoolSigned),
     Run(World3, <<0, 0>>, PoolPlain)}

Runs ==
    {Run(World1, <<0, 22>>, PoolHub),
     Run(World1, <<0, 10>>, PoolMoves),
     Run(World1, <<28, 10>>, PoolEdge),
     Run(World1, <<29, 5>>, PoolLate),
     Run(World2, <<0, 0>>, PoolDemand)}

\* With no flight known and nothing queued, decide_purchases orders nothing
\* when the hub holds at least the extra margin of every class: the loop
\* iterations before the start tick of such a run leave the engine as built.
IdleStable(world_) ==
    \A cls \in Classes : world_.airports[HUB].stock[cls] >= purchase_cap_extra[cls]

-----------------------------------------------------------------------------
(* The driver loop, main.py:234-311, around one Strategy instance *)

Now == <<current_day, current_hour>>

\* no helper call recorded
NoProbe == [op |-> "none"]

Cur ==
    [flights |-> flights, departures |-> departures, inventory |-> inventory,
     processing_queue |-> processing_queue]

\* Strategy.__init__, strategy.py:37-53, and main.py:234-235
StartOf(run) ==
    /\ run.start = <<0, 0>> \/ IdleStable(run.world)
    /\ world = run.world
    /\ pool = run.pool
    /\ current_day = run.start[1]
    /\ current_hour = run.start[2]
    /\ pc = "loads"
    /\ rounds = 1
    /\ sent = 0
    /\ flights = <<>>
    /\ departures = <<>>
    /\ inventory = [code \in DOMAIN run.world.airports |-> run.world.airports[code].stock]
    /\ processing_queue = <<>>
    /\ loads = <<>>
    /\ orders = create_per_class_amount(0, 0, 0, 0)
    /\ resp = NoResponse
    /\ before = [flights |-> <<>>, departures |-> <<>>,
                 inventory |-> [code \in DOMAIN run.world.airports |->
                                   run.world.airports[code].stock],
                 processing_queue |-> <<>>]
    /\ probe = NoProbe

Init == \E run \in Runs : StartOf(run)

\* main.py:256
DecideKitLoads ==
    /\ pc = "loads"
    /\ \E r \in {decide_kit_loads(Cur, Now)} :
           /\ departures' = r.departures
           /\ inventory' = r.inventory
           /\ processing_queue' = r.processing_queue
           /\ loads' = r.loads
    /\ before' = Cur
    /\ pc' = "purchases"
    /\ UNCHANGED <<world, pool, current_day, current_hour, rounds, sent, flights, orders,
                   resp, probe>>

\* main.py:257
DecidePurchases ==
    /\ pc = "purchases"
    /\ \E r \in {decide_purchases(Cur, Now)} :
           /\ processing_queue' = r.processing_queue
           /\ orders' = r.orders
    /\ before' = Cur
    /\ pc' = "submit"
    /\ UNCHANGED <<world, pool, current_day, current_hour, rounds, sent, flights,
                   departures, inventory, loads, resp, probe>>

\* the lists of flight updates a response may carry
Batches ==
    UNION {[1..n -> pool] : n \in 0..(IF rounds <= MaxEventRounds
                                       THEN Min(MaxBatch, MaxEvents - sent) ELSE 0)}

\* the truthy responses of play_round: with a flightUpdates list, or without the key
Responses ==
    {[totalCost |-> 0, flightUpdates |-> b] : b \in Batches} \cup {[totalCost |-> 0]}

\* main.py:258-261: the round succeeded and its response is ingested; an
\* exception of update_state ends the run at main.py:311-312
RoundOk ==
    /\ pc = "submit"
    /\ \E api_response \in Responses :
          \E r \in {update_state(Cur, api_response)} :
              /\ flights' = r.flights
              /\ departures' = r.departures
              /\ processing_queue' = r.processing_queue
              /\ resp' = api_response
              /\ sent' = sent + (IF "flightUpdates" \in DOMAIN api_response
                                 THEN Len(api_response.flightUpdates) ELSE 0)
              /\ pc' = IF update_state_raises(api_response) THEN "error" ELSE "advance"
    /\ before' = Cur
    /\ UNCHANGED <<world, pool, current_day, current_hour, rounds, inventory, loads, orders,
                   probe>>

\* main.py:300-302: play_round returned None, the loop is left
RoundFailed ==
    /\ pc = "submit"
    /\ resp' = NoResponse
    /\ pc' = "failed"
    /\ UNCHANGED <<world, pool, current_day, current_hour, rounds, sent, flights,
                   departures, inventory, processing_queue, loads, orders, before, probe>>

\* mutant of AdvanceClock: the hour is not wrapped at 24
AdvanceWithoutRollover ==
    /\ pc = "advance"
    /\ current_day' = current_day
    /\ current_hour' = current_hour + 1
    /\ pc' = IF current_day * 24 + current_hour + 1 < TOTAL_GAME_HOURS
             THEN "loads" ELSE "finished"
    /\ rounds' = IF current_day * 24 + current_hour + 1 < TOTAL_GAME_HOURS
                 THEN rounds + 1 ELSE rounds
    /\ UNCHANGED <<world, pool, sent, flights, departures, inventory, processing_queue,
                   loads, orders, resp, before, probe>>

\* main.py:304-307 and the loop test of main.py:240: the clock moves to the
\* next hour and the loop starts its next iteration or is left
AdvanceClock ==
    /\ pc = "advance"
    /\ LET next_hour == current_hour + 1
           day_ == IF next_hour >= 24 THEN current_day + 1 ELSE current_day
           hour_ == IF next_hour >= 24 THEN 0 ELSE next_hour
           again == day_ * 24 + hour_ < TOTAL_GAME_HOURS
       IN  /\ current_day' = day_
           /\ current_hour' = hour_
           /\ pc' = IF again THEN "loads" ELSE "finished"
           /\ rounds' = IF again THEN rounds + 1 ELSE rounds
    /\ UNCHANGED <<world, pool, sent, flights, departures, inventory, processing_queue,
                   loads, orders, resp, before, probe>>

\* the same, for the iterations followed from the start tick of a run
Advance ==
    /\ rounds < MaxRounds
    /\ AdvanceClock

Next == DecideKitLoads \/ DecidePurchases \/ RoundOk \/ RoundFailed \/ Advance

Spec == Init /\ [][Next]_vars

\* the same driver fed partial events, negative counts and negative
\* reference data
MalformedInit == \E run \in MalformedRuns : StartOf(run)

MalformedSpec == MalformedInit /\ [][Next]_vars

\* the same driver in the runs that exercise the bookkeeping of Ledger and
\* Queue: kits released and loaded in one call, orders of several ticks,
\* arrival and destination changes, a landing event
AccountingRuns ==
    {Run(World1, <<0, 0>>, PoolReturn),
     Run(World1, <<0, 10>>, PoolMoves),
     Run(World1, <<0, 10>>, PoolLanding)}

AccountingInit == \E run \in AccountingRuns : StartOf(run)

AccountingSpec == AccountingInit /\ [][Next]_vars

\* a whole run of the driver from tick (0, 0): the loop is followed until it
\* is left, with one flight announced in its first iterations
PoolLoop ==
    {Event("SCHEDULED", "F1", "HUB1", "AAA", <<0, 23>>, <<1, 0>>, Pax(4, 0, 0, 6), "AC1")}

LoopRuns == {Run(World2, <<0, 0>>, PoolLoop)}

LoopInit == \E run \in LoopRuns : StartOf(run)

LoopNext == DecideKitLoads \/ DecidePurchases \/ RoundOk \/ RoundFailed \/ AdvanceClock

\* every call of an iteration returns (play_round gives up after its timeout,
\* api_client.py:21, 94), so the loop always takes its next step
LoopSpec == LoopInit /\ [][LoopNext]_vars /\ WF_vars(LoopNext)

-----------------------------------------------------------------------------
(* The Forecaster queries and the time helpers called on their own: a       *)
(* second specification whose initial states hold the engine data and the   *)
(* arguments of one call, and whose actions make the call and keep the      *)
(* returned value.                                                          *)

\* flight identifiers and the passengers each carries in a query Registry
ProbeIds == <<"F1", "F2", "F3", "F4", "F5">>

ProbePax(k) == Pax(2 ^ (k - 1), 0, 1, 3 * 2 ^ (k - 1))

\* departure and ready ticks around the ends of the windows asked for
ProbeTicks == {<<1, 0>>, <<2, 13>>}

ProbeStarts == {<<1, 0>>, <<1, 1>>}

ProbeWindows == {36, 37}

ProbeAirports == {HUB, "AAA"}

ProbeFilters == {None, "FIRST"}

\* the Registries of at most MaxKnown flights, as update_state builds them
ProbeRegistries ==
    UNION {{[f \in {ProbeIds[k] : k \in 1..n} |->
                LET k == CHOOSE j \in 1..n : ProbeIds[j] = f
                IN  FlightInfo(Event("SCHEDULED", f, c[k][1], "BBB", c[k][2],
                                     _add_hours(c[k][2], 1), ProbePax(k), "AC1"))]
            : c \in [1..n -> ProbeAirports \X ProbeTicks]} : n \in 0..MaxKnown}

\* the Processing Queues of at most MaxQueued jobs
ProbeQueues ==
    UNION {{[k \in 1..n |-> ProcessingJob(c[k][3], c[k][1], c[k][2], 2 ^ (k - 1), None)]
            : c \in [1..n -> ProbeAirports \X {"FIRST", "ECONOMY"} \X ProbeTicks]}
           : n \in 0..MaxQueued}

\* the ticks of the days 0..MaxDay
Ticks == (0..MaxDay) \X (0..23)

\* the helpers called
ProbeOps == {"demand", "supply", "leq", "add"}

\* the calls of helper op to make: the engine data a call reads, the clock,
\* the arguments
ProbeCases(op) ==
    CASE op = "demand" ->
            {[flights |-> fl, queue |-> <<>>, clock |-> start,
              probe |-> [op |-> "demand", airport |-> a, start |-> start, window |-> wh,
                         cls_filter |-> cf, answer |-> <<>>]]
                : fl \in ProbeRegistries, a \in ProbeAirports, start \in ProbeStarts,
                  wh \in ProbeWindows, cf \in ProbeFilters}
      [] op = "supply" ->
            {[flights |-> <<>>, queue |-> q, clock |-> start,
              probe |-> [op |-> "supply", airport |-> a, start |-> start, window |-> wh,
                         cls_filter |-> cf, answer |-> <<>>]]
                : q \in ProbeQueues, a \in ProbeAirports, start \in ProbeStarts,
                  wh \in ProbeWindows, cf \in ProbeFilters}
      [] op = "leq" ->
            {[flights |-> <<>>, queue |-> <<>>, clock |-> right,
              probe |-> [op |-> "leq", left |-> left, right |-> right, answer |-> <<>>]]
                : left \in Ticks, right \in Ticks}
      [] op = "add" ->
            {[flights |-> <<>>, queue |-> <<>>, clock |-> t,
              probe |-> [op |-> "add", reference |-> t, delta_hours |-> d,
                         answer |-> <<>>]]
                : t \in Ticks, d \in 0..MaxDelta}

QueryInit ==
    \E op \in ProbeOps : \E case \in ProbeCases(op) :
        /\ world = World1
        /\ pool = {}
        /\ current_day = case.clock[1]
        /\ current_hour = case.clock[2]
        /\ pc = "query"
        /\ rounds = 1
        /\ sent = 0
        /\ flights = case.flights
        /\ departures = <<>>
        /\ inventory = [code \in DOMAIN World1.airports |-> World1.airports[code].stock]
        /\ processing_queue = case.queue
        /\ loads = <<>>
        /\ orders = create_per_class_amount(0, 0, 0, 0)
        /\ resp = NoResponse
        /\ before = [flights |-> case.flights, departures |-> <<>>,
                     inventory |-> [code \in DOMAIN World1.airports |->
                                       World1.airports[code].stock],
                     processing_queue |-> case.queue]
        /\ probe = case.probe

\* everything a query leaves alone
engine_state ==
    <<world, pool, current_day, current_hour, pc, rounds, sent, flights, departures,
      inventory, processing_queue, loads, orders, resp, before>>

Asked(op, name) == pc = "query" /\ probe.op = op /\ name \notin DOMAIN probe.answer

Answered(op, name) == pc = "query" /\ probe.op = op /\ name \in DOMAIN probe.answer

\* strategy.py:165, the destination-buffering call
QueryDemandForAirport ==
    /\ Asked("demand", "for_airport")
    /\ probe' = [probe EXCEPT !.answer = Put(@, "for_airport",
                    _future_demand_for_airport(flights, probe.airport, probe.start,
                                               probe.window))]
    /\ UNCHANGED engine_state

\* strategy.py:259, the hub-replenishment call
QueryDemandFromHub ==
    /\ Asked("demand", "from_hub")
    /\ probe' = [probe EXCEPT !.answer = Put(@, "from_hub",
                    _future_demand_from_hub(flights, Now, probe.window,
                                            probe.cls_filter))]
    /\ UNCHANGED engine_state

\* strategy.py:260
QueryIncomingKits ==
    /\ Asked("supply", "incoming")
    /\ probe' = [probe EXCEPT !.answer = Put(@, "incoming",
                    _incoming_kits(processing_queue, probe.airport, Now, probe.window,
                                   probe.cls_filter))]
    /\ UNCHANGED engine_state

\* strategy.py:293
QueryTimeLeq ==
    /\ Asked("leq", "leq")
    /\ probe' = [probe EXCEPT !.answer = Put(@, "leq", _time_leq(probe.left, Now))]
    /\ UNCHANGED engine_state

\* strategy.py:223, 311, 386
QueryAddHours ==
    /\ Asked("add", "sum")
    /\ probe' = [probe EXCEPT !.answer = Put(@, "sum",
                    _add_hours(probe.reference, probe.delta_hours))]
    /\ UNCHANGED engine_state

QueryNext ==
    \/ QueryDemandForAirport
    \/ QueryDemandFromHub
    \/ QueryIncomingKits
    \/ QueryTimeLeq
    \/ QueryAddHours

QuerySpec == QueryInit /\ [][QueryNext]_vars

-----------------------------------------------------------------------------
(* The training environment, gym_env.py: RotablesEnv steps and resets the   *)
(* same Strategy instance.  One step is the body of the driver loop made in *)
(* one call; reset restarts the episode.                                    *)

\* the Ledger as seeded from the static stock, strategy.py:43-47
SeededLedger == [code \in DOMAIN world.airports |-> world.airports[code].stock]

\* mutant of sync_inventory_static: the Processing Queue is kept
SyncKeepQueue(st) ==
    [flights |-> <<>>, departures |-> <<>>, inventory |-> SeededLedger,
     processing_queue |-> st.processing_queue]

\* Strategy.sync_inventory_static, called at gym_env.py:44: the Ledger is
\* reseeded from the static stock, the Registry, its index and the queue
\* are cleared
sync_inventory_static(st) ==
    [flights |-> <<>>, departures |-> <<>>, inventory |-> SeededLedger,
     processing_queue |-> <<>>]

\* Strategy.get_real_stock, called at gym_env.py:104: the current balance
get_real_stock(inv, airport_code, cls) == inv[airport_code][cls]

\* gym_env.py:104
hub_total(inv) == SumOver(Classes, [c \in Classes |-> get_real_stock(inv, HUB, c)])

\* gym_env.py:48-97
EnvStep ==
    /\ pc = "loads"
    /\ rounds <= MaxRounds
    /\ \E r1 \in {decide_kit_loads(Cur, Now)} :
       \E r2 \in {decide_purchases(r1, Now)} :
       \E response \in Responses \cup {NoResponse} :
       \E st3 \in {IF Falsy(response)
                   THEN [flights |-> r1.flights, departures |-> r1.departures,
                         inventory |-> r1.inventory,
                         processing_queue |-> r2.processing_queue]
                   ELSE update_state([flights |-> r1.flights,
                                      departures |-> r1.departures,
                                      inventory |-> r1.inventory,
                                      processing_queue |-> r2.processing_queue],
                                     response)} :
          LET next_hour == current_hour + 1
              day_ == IF next_hour >= 24 THEN current_day + 1 ELSE current_day
              hour_ == IF next_hour >= 24 THEN 0 ELSE next_hour
          IN  /\ flights' = st3.flights
              /\ departures' = st3.departures
              /\ inventory' = st3.inventory
              /\ processing_queue' = st3.processing_queue
              /\ loads' = r1.loads
              /\ orders' = r2.orders
              /\ resp' = response
              /\ sent' = sent + (IF "flightUpdates" \in DOMAIN response
                                 THEN Len(response.flightUpdates) ELSE 0)
              /\ current_day' = day_
              /\ current_hour' = hour_
              /\ pc' = IF update_state_raises(response) THEN "error"
                       ELSE IF Falsy(response) \/ day_ * 24 + hour_ >= TOTAL_GAME_HOURS
                       THEN "terminated" ELSE "loads"
    /\ rounds' = rounds + 1
    /\ before' = Cur
    /\ UNCHANGED <<world, pool, probe>>

\* gym_env.py:28-46, called between two steps or once the episode is over;
\* the episode that follows starts from the state left here
EnvReset ==
    /\ pc \in {"loads", "terminated"}
    /\ LET st == sync_inventory_static(Cur)
       IN  /\ flights' = st.flights
           /\ departures' = st.departures
           /\ inventory' = st.inventory
           /\ processing_queue' = st.processing_queue
           /\ probe' = [op |-> "obs", hub_total |-> hub_total(st.inventory)]
    /\ current_day' = 0
    /\ current_hour' = 0
    /\ before' = Cur
    /\ pc' = "reset"
    /\ UNCHANGED <<world, pool, rounds, sent, loads, orders, resp>>

EnvNext == EnvStep \/ EnvReset

EnvSpec == Init /\ [][EnvNext]_vars

-----------------------------------------------------------------------------
(* Vocabulary of the properties.  The properties read the returned values   *)
(* (loads, orders), the engine state and the history record before; ticks   *)
(* are compared as absolute hours.                                          *)

AbsHour(t) == t[1] * 24 + t[2]

\* decide_kit_loads has just returned; before is the state it was called in
AfterLoads == pc = "purchases"

\* decide_purchases has just returned
AfterPurchases == pc = "submit"

\* update_state has just returned
AfterUpdate == pc = "advance"

\* quantity of class cls in the i-th returned load record
Kits(i, cls) == loads[i].loadedKits[EVENT_CLASS_KEYS[cls]]

\* the Registry record of the flight of the i-th returned load record
InfoOf(i) == flights[loads[i].flightId]

KnownAircraft(i) == InfoOf(i).aircraft_type \in DOMAIN world.aircraft_types

\* quantity of the jobs queued before the call for airport a and class cls
\* whose ready tick is at or before the current tick
Matured(a, cls) ==
    LET J == {j \in 1..Len(before.processing_queue) :
                 /\ before.processing_queue[j].airport = a
                 /\ before.processing_queue[j].kit_class = cls
                 /\ AbsHour(before.processing_queue[j].ready_time) <= AbsHour(Now)}
    IN  SumOver(J, [j \in J |-> before.processing_queue[j].quantity])

\* Ledger balance of a / cls when the allocation loop starts
StartBalance(a, cls) ==
    (IF a \in DOMAIN before.inventory THEN before.inventory[a][cls] ELSE 0) + Matured(a, cls)

\* quantity the load records before position i took from airport a
TakenBefore(a, i, cls) ==
    LET J == {j \in 1..(i - 1) : InfoOf(j).origin = a}
    IN  SumOver(J, [j \in J |-> Kits(j, cls)])

\* Ledger balance of a / cls when the i-th record's flight is allocated
LiveBalance(a, i, cls) == StartBalance(a, cls) - TakenBefore(a, i, cls)

Origins == {InfoOf(i).origin : i \in 1..Len(loads)}

-----------------------------------------------------------------------------
\* C1: every returned load record carries, for each of the four classes, at
\* most the kit capacity of that class of the flight's aircraft type.
C1_LoadWithinKitCapacity ==
    AfterLoads =>
        \A i \in 1..Len(loads) : \A cls \in Classes :
            KnownAircraft(i) =>
                Kits(i, cls) <= world.aircraft_types[InfoOf(i).aircraft_type].kit_capacity[cls]

\* reached: a flight with more passengers than kit capacity and enough stock
\* was loaded exactly to the capacity
C1_Witness ==
    /\ AfterLoads
    /\ \E i \in 1..Len(loads) : \E cls \in Classes :
          /\ KnownAircraft(i)
          /\ Kits(i, cls) = world.aircraft_types[InfoOf(i).aircraft_type].kit_capacity[cls]
          /\ InfoOf(i).passengers[cls] > Kits(i, cls)
          /\ LiveBalance(InfoOf(i).origin, i, cls) > Kits(i, cls)

\* C2: for every flight allocated, hub origin or outstation origin, the
\* loaded quantity of each class is at most the passenger count recorded for
\* the flight in the Registry.
C2_LoadWithinPassengers ==
    AfterLoads =>
        \A i \in 1..Len(loads) : \A cls \in Classes :
            Kits(i, cls) <= InfoOf(i).passengers[cls]

\* reached: one call loaded a hub flight and an outstation flight, each with
\* exactly its passengers in a class where capacity and stock are larger
C2_Witness ==
    /\ AfterLoads
    /\ \E i, j \in 1..Len(loads) : \E ci, cj \in Classes :
          /\ InfoOf(i).origin = HUB /\ InfoOf(j).origin # HUB
          /\ KnownAircraft(i) /\ KnownAircraft(j)
          /\ Kits(i, ci) = InfoOf(i).passengers[ci] /\ Kits(i, ci) > 0
          /\ Kits(j, cj) = InfoOf(j).passengers[cj] /\ Kits(j, cj) > 0
          /\ LiveBalance(HUB, i, ci) > Kits(i, ci)
          /\ LiveBalance(InfoOf(j).origin, j, cj) > Kits(j, cj)

\* C3: within one decide_kit_loads call, for every origin and class, each
\* flight takes at most the balance left by the flights indexed before it, so
\* the quantities taken sum to at most the balance at the start of the loop
\* (after the release of matured jobs), and the Ledger ends at that balance
\* minus the sum.
C3_TickDeductionsWithinStartBalance ==
    AfterLoads =>
        \A a \in Origins : \A cls \in Classes :
            /\ \A i \in 1..Len(loads) :
                  InfoOf(i).origin = a => Kits(i, cls) <= LiveBalance(a, i, cls)
            /\ TakenBefore(a, Len(loads) + 1, cls) <= StartBalance(a, cls)
            /\ inventory[a][cls] = StartBalance(a, cls) - TakenBefore(a, Len(loads) + 1, cls)

\* reached: two flights of one origin left at the same tick and the second got
\* only what the first had left, less than its passengers
C3_Witness ==
    /\ AfterLoads
    /\ \E i, j \in 1..Len(loads) : \E cls \in Classes :
          /\ i < j
          /\ InfoOf(i).origin = InfoOf(j).origin
          /\ Kits(i, cls) > 0
          /\ Kits(j, cls) > 0
          /\ Kits(j, cls) = LiveBalance(InfoOf(j).origin, j, cls)
          /\ Kits(j, cls) < InfoOf(j).passengers[cls]
          /\ inventory[InfoOf(j).origin][cls] = 0

\* C4: with non-negative initial stock, passengers and capacities, every
\* Ledger entry is >= 0 in every reachable state.
C4_LedgerNonNegative ==
    \A a \in DOMAIN inventory : \A cls \in Classes : inventory[a][cls] >= 0

\* reached: an allocation took the whole balance of an origin and class
C4_Witness ==
    /\ AfterLoads
    /\ \E i \in 1..Len(loads) : \E cls \in Classes :
          /\ Kits(i, cls) > 0
          /\ InfoOf(i).passengers[cls] > Kits(i, cls)
          /\ inventory[InfoOf(i).origin][cls] = 0

\* the jobs queued before the call whose ready tick is after the current tick
PendingBefore ==
    SelectSeq(before.processing_queue, LAMBDA job : AbsHour(job.ready_time) > AbsHour(Now))

\* queue q2 holds the jobs of q1, in order, with the same airport, class,
\* quantity and tag, at its first Len(q1) positions
SameJobs(q1, q2) ==
    /\ Len(q2) >= Len(q1)
    /\ \A k \in 1..Len(q1) :
          /\ q2[k].airport = q1[k].airport
          /\ q2[k].kit_class = q1[k].kit_class
          /\ q2[k].quantity = q1[k].quantity
          /\ q2[k].flight_id = q1[k].flight_id

\* C5: a decide_kit_loads call credits to the Ledger exactly the queued jobs
\* whose ready tick is at or before its tick and removes exactly those jobs;
\* jobs with a later ready tick stay queued uncredited, in order; no other
\* operation credits or removes a job, so a job is credited once, at the first
\* allocation tick at or after its ready tick, and the queue shrinks only by
\* matured jobs and grows only by enqueues.
C5_JobsReleasedExactlyOnce ==
    /\ AfterLoads =>
          /\ Len(processing_queue) >= Len(PendingBefore)
          /\ SubSeq(processing_queue, 1, Len(PendingBefore)) = PendingBefore
          /\ \A k \in (Len(PendingBefore) + 1)..Len(processing_queue) :
                \E i \in 1..Len(loads) : processing_queue[k].flight_id = loads[i].flightId
          /\ \A a \in DOMAIN inventory : \A cls \in Classes :
                inventory[a][cls] =
                    StartBalance(a, cls) - TakenBefore(a, Len(loads) + 1, cls)
    /\ AfterPurchases =>
          /\ inventory = before.inventory
          /\ SameJobs(before.processing_queue, processing_queue)
          /\ \A k \in (Len(before.processing_queue) + 1)..Len(processing_queue) :
                processing_queue[k].flight_id = None
    /\ AfterUpdate =>
          /\ inventory = before.inventory
          /\ Len(processing_queue) = Len(before.processing_queue)
          /\ SameJobs(before.processing_queue, processing_queue)

\* reached: one call released a hub purchase exactly at its ready tick, at a
\* tick where nothing departs, credited it, and kept a job that is not ready
C5_Witness ==
    /\ AfterLoads
    /\ loads = <<>>
    /\ PendingBefore # <<>>
    /\ \E j \in 1..Len(before.processing_queue) :
          LET job == before.processing_queue[j]
          IN  /\ job.flight_id = None
              /\ AbsHour(job.ready_time) = AbsHour(Now)
              /\ inventory[job.airport][job.kit_class]
                     = before.inventory[job.airport][job.kit_class] + job.quantity

\* the flight updates of the response update_state was called with
Updates == IF "flightUpdates" \in DOMAIN resp THEN resp.flightUpdates ELSE <<>>

\* positions of the schedule and check-in events of the response for flight f
RecordedFor(f) ==
    {k \in 1..Len(Updates) :
        Updates[k].flightId = f /\ Updates[k].eventType \in {"SCHEDULED", "CHECKED_IN"}}

\* event e moves the arrival of the known flight f and keeps its destination
MovesArrival(f, e) ==
    /\ f \in DOMAIN before.flights
    /\ before.flights[f].arrival # e.arrival
    /\ before.flights[f].destination = e.destinationAirport

\* the (day, hour) tick of an absolute hour
TickOf(h) == <<h \div 24, h % 24>>

\* the jobs tagged f have ready tick = arrival of e + processing time of their
\* class at the destination of e + safety margin
TaggedJobsMoved(f, e) ==
    \A k \in 1..Len(processing_queue) :
        processing_queue[k].flight_id = f =>
            /\ e.destinationAirport \in DOMAIN world.airports
            /\ processing_queue[k].ready_time =
                   TickOf(AbsHour(e.arrival)
                          + world.airports[e.destinationAirport].processing_time[
                                processing_queue[k].kit_class]
                          + safety_margin)

\* every job is where it was, and the jobs that are untagged or tagged with a
\* flight the response has no recorded event for keep their ready tick
OtherJobsKept ==
    /\ Len(processing_queue) = Len(before.processing_queue)
    /\ SameJobs(before.processing_queue, processing_queue)
    /\ \A k \in 1..Len(processing_queue) :
          (processing_queue[k].flight_id = None
             \/ RecordedFor(processing_queue[k].flight_id) = {})
          => processing_queue[k].ready_time = before.processing_queue[k].ready_time

\* C6 as claimed: an event for a known flight with a different arrival tick
\* and the same destination gives exactly the jobs tagged with the flight the
\* ready tick new arrival + processing_time[class] at the destination + margin.
C6_Claimed_RescheduleOnArrivalChange ==
    AfterUpdate =>
        /\ OtherJobsKept
        /\ \A f \in DOMAIN before.flights :
              \A k \in RecordedFor(f) :
                  (Cardinality(RecordedFor(f)) = 1 /\ MovesArrival(f, Updates[k]))
                  => TaggedJobsMoved(f, Updates[k])

\* C6 amended: the same when the destination is an airport of the World
\* Reference; when it is not, the jobs tagged with the flight keep their ready
\* tick.  In both cases every other job keeps its ready tick and no job
\* changes airport, class or quantity.
C6_RescheduleOnArrivalChange ==
    AfterUpdate =>
        /\ OtherJobsKept
        /\ \A f \in DOMAIN before.flights :
              \A k \in RecordedFor(f) :
                  (Cardinality(RecordedFor(f)) = 1 /\ MovesArrival(f, Updates[k]))
                  => IF Updates[k].destinationAirport \in DOMAIN world.airports
                     THEN TaggedJobsMoved(f, Updates[k])
                     ELSE \A j \in 1..Len(processing_queue) :
                              processing_queue[j].flight_id = f =>
                                  processing_queue[j].ready_time
                                      = before.processing_queue[j].ready_time

\* reached: a reschedule moved the ready tick of the jobs of one flight while
\* a job of another flight and a hub purchase were queued
C6_Witness ==
    /\ AfterUpdate
    /\ \E f \in DOMAIN before.flights : \E k \in RecordedFor(f) :
          /\ Cardinality(RecordedFor(f)) = 1
          /\ MovesArrival(f, Updates[k])
          /\ Updates[k].destinationAirport \in DOMAIN world.airports
          /\ \E j \in 1..Len(processing_queue) :
                /\ processing_queue[j].flight_id = f
                /\ processing_queue[j].ready_time # before.processing_queue[j].ready_time
          /\ \E j \in 1..Len(processing_queue) : processing_queue[j].flight_id = None
          /\ \E j \in 1..Len(processing_queue) :
                processing_queue[j].flight_id \notin {f, None}

\* hub balance plus incoming supply of the class horizon, as decide_purchases
\* found them (the queue before its own enqueue)
IncomingBefore(cls) ==
    LET J == {j \in 1..Len(before.processing_queue) :
                 /\ before.processing_queue[j].airport = HUB
                 /\ before.processing_queue[j].kit_class = cls
                 /\ AbsHour(Now) <= AbsHour(before.processing_queue[j].ready_time)
                 /\ AbsHour(before.processing_queue[j].ready_time)
                        <= AbsHour(Now) + purchase_horizon[cls]}
    IN  SumOver(J, [j \in J |-> before.processing_queue[j].quantity])

ProjectedBefore(cls) == before.inventory[HUB][cls] + IncomingBefore(cls)

\* passengers of class cls on the known hub flights leaving in the class horizon
HubDemand(cls) ==
    LET F == {f \in DOMAIN flights :
                 /\ flights[f].origin = HUB
                 /\ AbsHour(Now) <= AbsHour(flights[f].departure)
                 /\ AbsHour(flights[f].departure) <= AbsHour(Now) + purchase_horizon[cls]}
    IN  SumOver(F, [f \in F |-> flights[f].passengers[cls]])

\* the class is short: projected stock is below demand plus the extra margin
Short(cls) == ProjectedBefore(cls) < HubDemand(cls) + purchase_cap_extra[cls]

Order(cls) == orders[EVENT_CLASS_KEYS[cls]]

\* C7: the order of a class is 0 whenever current absolute tick +
\* leadTime[class] >= 720, whatever the shortfall, and the ECONOMY order is 0
\* whenever fewer than 18 hours remain.
C7_NoOrderNearEnd ==
    AfterPurchases =>
        /\ \A cls \in Classes :
              AbsHour(Now) + lead_times[cls] >= TOTAL_GAME_HOURS => Order(cls) = 0
        /\ TOTAL_GAME_HOURS - AbsHour(Now) < economy_cutoff => Order("ECONOMY") = 0

\* reached: ECONOMY short with fewer than 18 but more than 12 hours left, and
\* another class short with its lead time reaching the end: both orders are 0
C7_Witness ==
    /\ AfterPurchases
    /\ Short("ECONOMY")
    /\ TOTAL_GAME_HOURS - AbsHour(Now) < economy_cutoff
    /\ AbsHour(Now) + lead_times["ECONOMY"] < TOTAL_GAME_HOURS
    /\ Order("ECONOMY") = 0
    /\ \E cls \in Classes \ {"ECONOMY"} :
          /\ Short(cls)
          /\ AbsHour(Now) + lead_times[cls] >= TOTAL_GAME_HOURS
          /\ world.airports[HUB].capacity[cls] > ProjectedBefore(cls)
          /\ Order(cls) = 0

\* C8: every returned order quantity is >= 0, and a positive order keeps hub
\* balance + incoming supply of the class horizon + order within the hub
\* capacity of the class.
C8_OrderWithinHubCapacity ==
    AfterPurchases =>
        \A cls \in Classes :
            /\ Order(cls) >= 0
            /\ Order(cls) > 0 =>
                  ProjectedBefore(cls) + Order(cls) <= world.airports[HUB].capacity[cls]

\* reached: an order smaller than the shortfall that fills the hub capacity
\* exactly, with supply already on its way
C8_Witness ==
    /\ AfterPurchases
    /\ \E cls \in Classes :
          /\ Order(cls) > 0
          /\ IncomingBefore(cls) > 0
          /\ ProjectedBefore(cls) + Order(cls) = world.airports[HUB].capacity[cls]
          /\ ProjectedBefore(cls) + Order(cls) < HubDemand(cls) + purchase_cap_extra[cls]

\* capacity of airport a for class cls; an airport that is not in the World
\* Reference has none
CapacityOf(a, cls) == IF a \in DOMAIN world.airports THEN world.airports[a].capacity[cls] ELSE 0

\* passengers of class cls on the known flights that leave airport a in the
\* 36 hours after tick t
ForecastNeed(a, t, cls) ==
    LET F == {f \in DOMAIN flights :
                 /\ flights[f].origin = a
                 /\ AbsHour(t) < AbsHour(flights[f].departure)
                 /\ AbsHour(flights[f].departure) <= AbsHour(t) + window_hours}
    IN  SumOver(F, [f \in F |-> flights[f].passengers[cls]])

\* pax + max(0, forecastNeed - destination balance) for the i-th load record
Required(i, cls) ==
    LET info == InfoOf(i)
    IN  info.passengers[cls]
        + Max(0, ForecastNeed(info.destination, info.arrival, cls)
                 - LiveBalance(info.destination, i, cls))

Min5(a, b, c, d, e) == Min(a, Min(b, Min(c, Min(d, e))))

\* the load of class cls of the i-th record is min(cap, stock, headroom,
\* required, pax) with the given destination headroom
HubLoadIs(i, cls, headroom) ==
    Kits(i, cls) =
        Min5(world.aircraft_types[InfoOf(i).aircraft_type].kit_capacity[cls],
             LiveBalance(HUB, i, cls), headroom, Required(i, cls),
             InfoOf(i).passengers[cls])

HubRecord(i) == InfoOf(i).origin = HUB /\ KnownAircraft(i)

\* Scenario A: hub FIRST 100, aircraft FIRST capacity 10, 4 FIRST passengers,
\* destination FIRST stock 0 and no forecast need
ScenarioA(i) ==
    /\ HubRecord(i)
    /\ LiveBalance(HUB, i, "FIRST") = 100
    /\ world.aircraft_types[InfoOf(i).aircraft_type].kit_capacity["FIRST"] = 10
    /\ InfoOf(i).passengers["FIRST"] = 4
    /\ InfoOf(i).destination \in DOMAIN world.airports
    /\ CapacityOf(InfoOf(i).destination, "FIRST") >= 4
    /\ LiveBalance(InfoOf(i).destination, i, "FIRST") = 0
    /\ ForecastNeed(InfoOf(i).destination, InfoOf(i).arrival, "FIRST") = 0

\* C9 as claimed: a hub flight with a known aircraft loads min(cap, stock,
\* destHeadroom, required, pax) with destHeadroom = destination capacity -
\* destination balance.
C9_Claimed_HubLoadFormula ==
    AfterLoads =>
        \A i \in 1..Len(loads) : \A cls \in Classes :
            HubRecord(i) =>
                HubLoadIs(i, cls, CapacityOf(InfoOf(i).destination, cls)
                                  - LiveBalance(InfoOf(i).destination, i, cls))

\* C9 amended: the same with destHeadroom = max(0, destination capacity -
\* destination balance); in Scenario A the FIRST load is 4 and hub FIRST
\* becomes 96.
C9_HubLoadFormula ==
    AfterLoads =>
        \A i \in 1..Len(loads) :
            HubRecord(i) =>
                /\ \A cls \in Classes :
                      HubLoadIs(i, cls,
                          Max(0, CapacityOf(InfoOf(i).destination, cls)
                                 - LiveBalance(InfoOf(i).destination, i, cls)))
                /\ ScenarioA(i) =>
                      /\ Kits(i, "FIRST") = 4
                      /\ LiveBalance(HUB, i + 1, "FIRST") = 96

\* reached: Scenario A as the only flight of its tick, hub FIRST now 96; and,
\* in another class of the same flight, the load capped by the aircraft
C9_Witness ==
    /\ AfterLoads
    /\ Len(loads) = 1
    /\ ScenarioA(1)
    /\ inventory[HUB]["FIRST"] = 96
    /\ \E cls \in Classes :
          /\ Kits(1, cls) > 0
          /\ Kits(1, cls) < InfoOf(1).passengers[cls]

\* reached: a hub flight to a destination holding more than its capacity
C9_WitnessOverCapacity ==
    /\ AfterLoads
    /\ \E i \in 1..Len(loads) : \E cls \in Classes :
          /\ HubRecord(i)
          /\ InfoOf(i).passengers[cls] > 0
          /\ LiveBalance(InfoOf(i).destination, i, cls)
                 > CapacityOf(InfoOf(i).destination, cls)
          /\ Kits(i, cls) = 0

\* C10: an outstation flight with a known aircraft loads min(pax, cap, stock)
\* with stock the live origin balance.
C10_OutstationLoadFormula ==
    AfterLoads =>
        \A i \in 1..Len(loads) : \A cls \in Classes :
            (InfoOf(i).origin # HUB /\ KnownAircraft(i)) =>
                Kits(i, cls) =
                    Min(InfoOf(i).passengers[cls],
                        Min(world.aircraft_types[InfoOf(i).aircraft_type].kit_capacity[cls],
                            LiveBalance(InfoOf(i).origin, i, cls)))

\* reached: Scenario C, ECONOMY stock 3, 10 ECONOMY passengers, capacity 50:
\* the load is 3 and the origin balance becomes 0
C10_Witness ==
    /\ AfterLoads
    /\ \E i \in 1..Len(loads) :
          /\ InfoOf(i).origin # HUB
          /\ KnownAircraft(i)
          /\ LiveBalance(InfoOf(i).origin, i, "ECONOMY") = 3
          /\ InfoOf(i).passengers["ECONOMY"] = 10
          /\ world.aircraft_types[InfoOf(i).aircraft_type].kit_capacity["ECONOMY"] = 50
          /\ Kits(i, "ECONOMY") = 3
          /\ inventory[InfoOf(i).origin]["ECONOMY"] = 0

\* target of the class: floor(demand * (1 + buffer)) + extra margin, over the
\* demand decide_purchases found
TargetBefore(cls) ==
    (HubDemand(cls) * (purchase_buffer[cls][2] + purchase_buffer[cls][1]))
        \div purchase_buffer[cls][2]
    + purchase_cap_extra[cls]

\* the order of the class is suppressed near the end of the simulation
NearEnd(cls) ==
    \/ AbsHour(Now) + lead_times[cls] >= TOTAL_GAME_HOURS
    \/ (cls = "ECONOMY" /\ TOTAL_GAME_HOURS - AbsHour(Now) < economy_cutoff)

\* the order of the class is 0 when projected >= target or near the end, and
\* otherwise min(target - projected, room) with the given hub room
OrderIs(cls, room) ==
    Order(cls) =
        IF ProjectedBefore(cls) >= TargetBefore(cls) \/ NearEnd(cls) THEN 0
        ELSE Min(TargetBefore(cls) - ProjectedBefore(cls), room)

\* Scenario B: hub FIRST stock 0, FIRST demand 50 over the horizon, no
\* incoming supply
ScenarioB ==
    /\ before.inventory[HUB]["FIRST"] = 0
    /\ HubDemand("FIRST") = 50
    /\ IncomingBefore("FIRST") = 0

\* C11 as claimed: projected = hub balance + incoming supply of the class
\* horizon, target = floor(demand * (1 + buffer)) + extra margin; the order is
\* 0 when projected >= target and otherwise, unless suppressed near the end,
\* min(target - projected, hub capacity - projected).
C11_Claimed_OrderFormula ==
    AfterPurchases =>
        \A cls \in Classes :
            OrderIs(cls, world.airports[HUB].capacity[cls] - ProjectedBefore(cls))

\* C11 amended: the same with the hub room max(0, hub capacity - projected);
\* in Scenario B the target is 55 + the FIRST extra margin and the shortfall
\* is the same, and the order is min(shortfall, hub capacity).
C11_OrderFormula ==
    AfterPurchases =>
        /\ \A cls \in Classes :
              OrderIs(cls, Max(0, world.airports[HUB].capacity[cls] - ProjectedBefore(cls)))
        /\ ScenarioB =>
              /\ TargetBefore("FIRST") = 55 + purchase_cap_extra["FIRST"]
              /\ Order("FIRST") = Min(55 + purchase_cap_extra["FIRST"],
                                      world.airports[HUB].capacity["FIRST"])

\* reached: Scenario B, with an order of 75 = 55 + 20 and a hub job of that
\* quantity maturing one FIRST lead time after the current tick
C11_Witness ==
    /\ AfterPurchases
    /\ ScenarioB
    /\ Order("FIRST") = 75
    /\ \E j \in 1..Len(processing_queue) :
          /\ processing_queue[j].airport = HUB
          /\ processing_queue[j].kit_class = "FIRST"
          /\ processing_queue[j].quantity = 75
          /\ AbsHour(processing_queue[j].ready_time) = AbsHour(Now) + lead_times["FIRST"]

\* the jobs the last decide_kit_loads call appended
NewJobs == SubSeq(processing_queue, Len(PendingBefore) + 1, Len(processing_queue))

\* positions in NewJobs of the jobs tagged with the flight of the i-th load
\* record and of class cls
JobsOf(i, cls) ==
    {k \in 1..Len(NewJobs) :
        NewJobs[k].flight_id = loads[i].flightId /\ NewJobs[k].kit_class = cls}

\* processing time of class cls at airport a; none is known for an airport
\* that is not in the World Reference
ProcessingTimeOf(a, cls) ==
    IF a \in DOMAIN world.airports THEN world.airports[a].processing_time[cls] ELSE 0

\* C12: for every flight allocated by decide_kit_loads and every class with a
\* loaded quantity > 0, exactly one job is appended, at the flight's
\* destination, of that class, with the loaded quantity, tagged with the
\* flight, with ready tick = arrival + processing_time[class] of the
\* destination + safety margin; no job is appended for a class loaded with 0.
C12_JobPerLoadedClass ==
    AfterLoads =>
        \A i \in 1..Len(loads) : \A cls \in Classes :
            /\ Cardinality(JobsOf(i, cls)) = (IF Kits(i, cls) > 0 THEN 1 ELSE 0)
            /\ \A k \in JobsOf(i, cls) :
                  /\ NewJobs[k].airport = InfoOf(i).destination
                  /\ NewJobs[k].quantity = Kits(i, cls)
                  /\ NewJobs[k].ready_time =
                         TickOf(AbsHour(InfoOf(i).arrival)
                                + ProcessingTimeOf(InfoOf(i).destination, cls)
                                + safety_margin)

\* the jobs the last decide_purchases call appended
Purchased ==
    SubSeq(processing_queue, Len(before.processing_queue) + 1, Len(processing_queue))

\* positions in Purchased of the jobs of class cls
PurchasedOf(cls) == {k \in 1..Len(Purchased) : Purchased[k].kit_class = cls}

\* C13: decide_purchases(tick) appends exactly one job for each class whose
\* returned order is positive, at the hub, with the order as quantity, ready
\* tick = tick + leadTime[class] and no flight tag, and nothing for a class
\* whose order is 0; the jobs queued before stay as they were.
C13_JobPerPositiveOrder ==
    AfterPurchases =>
        /\ Len(processing_queue) >= Len(before.processing_queue)
        /\ SubSeq(processing_queue, 1, Len(before.processing_queue)) = before.processing_queue
        /\ \A cls \in Classes :
              /\ Cardinality(PurchasedOf(cls)) = (IF Order(cls) > 0 THEN 1 ELSE 0)
              /\ \A k \in PurchasedOf(cls) :
                    /\ Purchased[k].airport = HUB
                    /\ Purchased[k].quantity = Order(cls)
                    /\ Purchased[k].flight_id = None
                    /\ Purchased[k].ready_time = TickOf(AbsHour(Now) + lead_times[cls])

\* reached: one call ordered two classes and not the other two, with flight
\* jobs already queued, and a ready tick on the next day
C13_Witness ==
    /\ AfterPurchases
    /\ before.processing_queue # <<>>
    /\ Len(Purchased) = 2
    /\ \E c1, c2 \in Classes :
          /\ c1 # c2
          /\ Order(c1) > 0 /\ Order(c2) > 0
          /\ \A c \in Classes \ {c1, c2} : Order(c) = 0
    /\ \E k \in 1..Len(Purchased) : Purchased[k].ready_time[1] > current_day

\* Ledger balance of airport a and class cls in the ledger inv
Balance(inv, a, cls) == IF a \in DOMAIN inv THEN inv[a][cls] ELSE 0

\* the identifiers indexed at tick t in the index deps
Indexed(deps, t) == IF t \in DOMAIN deps THEN deps[t] ELSE <<>>

\* sequence q1 is the beginning of sequence q2
IsPrefix(q1, q2) == Len(q1) <= Len(q2) /\ SubSeq(q2, 1, Len(q1)) = q1

\* C14: decide_kit_loads(tick) returns one load record per identifier indexed
\* at the tick, in index order, and update_state only appends to an index
\* list, so that order is the order of first recording; a flight of an unknown
\* aircraft type gets a record with 0 for the four classes, takes nothing
\* from the Ledger and gets no job.
C14_OneRecordPerIndexedFlight ==
    /\ AfterLoads =>
          /\ Len(loads) = Len(Indexed(before.departures, Now))
          /\ \A i \in 1..Len(loads) :
                /\ loads[i].flightId = Indexed(before.departures, Now)[i]
                /\ ~KnownAircraft(i) =>
                      /\ \A cls \in Classes : Kits(i, cls) = 0 /\ JobsOf(i, cls) = {}
                      /\ \A a \in DOMAIN inventory : \A cls \in Classes :
                            LiveBalance(a, i + 1, cls) = LiveBalance(a, i, cls)
          /\ \A a \in (DOMAIN inventory) \cup (DOMAIN before.inventory) : \A cls \in Classes :
                Balance(inventory, a, cls)
                    = StartBalance(a, cls) - TakenBefore(a, Len(loads) + 1, cls)
    /\ AfterUpdate =>
          \A t \in DOMAIN before.departures :
              IsPrefix(before.departures[t], Indexed(departures, t))

\* reached: three flights of one tick, the second of an unknown aircraft type
\* with passengers and hub stock at hand gets zeros, the others are loaded
C14_Witness ==
    /\ AfterLoads
    /\ Len(loads) = 3
    /\ ~KnownAircraft(2)
    /\ \E cls \in Classes :
          /\ InfoOf(2).passengers[cls] > 0
          /\ LiveBalance(InfoOf(2).origin, 2, cls) > 0
    /\ \E cls \in Classes : Kits(1, cls) > 0
    /\ \E cls \in Classes : Kits(3, cls) > 0

\* the ticks under which the index deps lists flight f
TicksOf(deps, f) == {t \in DOMAIN deps : \E i \in 1..Len(deps[t]) : deps[t][i] = f}

\* C16: in every reachable state a flight identifier appears in the
\* departure-tick index under at most one tick, also after a later event for
\* the identifier carries a different departure tick.
C16_IndexedUnderOneTick ==
    \A f \in DOMAIN flights : Cardinality(TicksOf(departures, f)) <= 1

\* absolute hour of the last tick decide_kit_loads ran for
LastAllocated == IF pc = "loads" THEN AbsHour(Now) - 1 ELSE AbsHour(Now)

\* the index deps has an entry whose tick is at or before absolute hour h
Stale(deps, h) == \E t \in DOMAIN deps : AbsHour(t) <= h

\* every flight update of the response that is recorded departs after the
\* tick of the response
UpdatesDepartLater ==
    \A k \in 1..Len(Updates) :
        Updates[k].eventType \in {"SCHEDULED", "CHECKED_IN"} =>
            AbsHour(Updates[k].departure) > AbsHour(Now)

\* after decide_kit_loads(tick) the index has no entry for the tick and the
\* records of the flights that departed are still in the Registry
TickEntryRemoved ==
    AfterLoads =>
        /\ Now \notin DOMAIN departures
        /\ flights = before.flights
        /\ \A i \in 1..Len(loads) : loads[i].flightId \in DOMAIN flights
        /\ \A t \in DOMAIN before.departures :
              t # Now => (t \in DOMAIN departures /\ departures[t] = before.departures[t])

\* C17 as claimed: after decide_kit_loads(tick) the index has no entry for
\* the tick while the departed flights stay in the Registry, and no index
\* entry whose tick is at or before the last allocated tick remains.
C17_Claimed_NoPastIndexEntry ==
    /\ TickEntryRemoved
    /\ ~Stale(departures, LastAllocated)

\* C17 amended: the first part as claimed; no index entry at or before the
\* last allocated tick remains as long as every recorded event departs after
\* the tick of the response that carries it: allocation, purchase and such an
\* update each keep the index free of past entries.
C17_NoPastIndexEntry ==
    /\ TickEntryRemoved
    /\ AfterLoads =>
          (~Stale(before.departures, AbsHour(Now) - 1) => ~Stale(departures, AbsHour(Now)))
    /\ AfterPurchases => departures = before.departures
    /\ AfterUpdate =>
          ((~Stale(before.departures, AbsHour(Now)) /\ UpdatesDepartLater)
              => ~Stale(departures, AbsHour(Now)))

\* reached: an allocation consumed the entry of its tick, loaded its flight,
\* and left the entry of a later tick in place
C17_Witness ==
    /\ AfterLoads
    /\ \E i \in 1..Len(loads) : \E cls \in Classes : Kits(i, cls) > 0
    /\ Now \in DOMAIN before.departures
    /\ DOMAIN departures # {}
    /\ ~Stale(departures, AbsHour(Now))

\* sequence q lists no element twice
NoRepeat(q) == \A i, j \in 1..Len(q) : q[i] = q[j] => i = j

\* the response carried the same recorded event twice and nothing else
SameEventTwice ==
    /\ Len(Updates) = 2
    /\ Updates[1] = Updates[2]
    /\ Updates[1].eventType \in {"SCHEDULED", "CHECKED_IN"}

\* C18: the identifier list indexed at a departure tick never contains an
\* identifier twice, and recording an event a second time leaves the
\* Registry, the index, the Ledger and the Queue as they were after the first
\* time: for every event of the run in every engine state update_state is
\* called in, and in the update_state calls whose response carries one event
\* twice.
C18_RecordingIdempotent ==
    /\ \A t \in DOMAIN departures : NoRepeat(departures[t])
    /\ AfterPurchases =>
          \A event \in pool : \E once \in {RecordEvent(Cur, event)} :
              RecordEvent(once, event) = once
    /\ (AfterUpdate /\ SameEventTwice) => Cur = RecordEvent(before, Updates[1])

\* reached: a response carried twice a check-in event that moves the arrival
\* of an allocated flight; its jobs were rescheduled and the flight is listed
\* once at its departure tick
C18_Witness ==
    /\ AfterUpdate
    /\ SameEventTwice
    /\ MovesArrival(Updates[1].flightId, Updates[1])
    /\ \E j \in 1..Len(processing_queue) :
          /\ processing_queue[j].flight_id = Updates[1].flightId
          /\ processing_queue[j].ready_time # before.processing_queue[j].ready_time
    /\ Updates[1].departure \in DOMAIN departures
    /\ Cardinality({i \in 1..Len(departures[Updates[1].departure]) :
                       departures[Updates[1].departure][i] = Updates[1].flightId}) = 1

\* position in the response of the last recorded event for flight f
LastRecorded(f) == CHOOSE k \in RecordedFor(f) : \A j \in RecordedFor(f) : j <= k

\* the Registry record r holds the values event e carries
Holds(r, e) ==
    /\ r.flight_id = e.flightId
    /\ r.origin = e.originAirport
    /\ r.destination = e.destinationAirport
    /\ r.departure = e.departure
    /\ r.arrival = e.arrival
    /\ r.aircraft_type = e.aircraftType
    /\ \A cls \in Classes : r.passengers[cls] = e.passengers[EVENT_CLASS_KEYS[cls]]

\* the flights the response has a recorded event for
UpdatedFlights == {Updates[k].flightId : k \in {j \in 1..Len(Updates) :
                       Updates[j].eventType \in {"SCHEDULED", "CHECKED_IN"}}}

\* C19: after update_state, the record stored for each identifier of the
\* response holds origin, destination, departure, arrival, aircraft type and
\* passenger counts of the last schedule or check-in event for it in
\* processing order, and the other records are as before; allocation and
\* purchase leave the Registry as update_state left it, so they read those
\* latest values.
C19_LatestEventStored ==
    /\ AfterUpdate =>
          /\ DOMAIN flights = (DOMAIN before.flights) \cup UpdatedFlights
          /\ \A f \in UpdatedFlights : Holds(flights[f], Updates[LastRecorded(f)])
          /\ \A f \in (DOMAIN flights) \ UpdatedFlights : flights[f] = before.flights[f]
    /\ (AfterLoads \/ AfterPurchases) => flights = before.flights

\* reached: one response carried two events for a known flight that differ in
\* passengers and arrival, and the Registry holds the values of the second
C19_Witness ==
    /\ AfterUpdate
    /\ Len(Updates) = 2
    /\ Updates[1].flightId = Updates[2].flightId
    /\ Updates[1].passengers # Updates[2].passengers
    /\ Updates[1].arrival # Updates[2].arrival
    /\ Updates[1].flightId \in DOMAIN before.flights
    /\ Holds(flights[Updates[1].flightId], Updates[2])
    /\ ~Holds(before.flights[Updates[1].flightId], Updates[2])

-----------------------------------------------------------------------------
(* Forecaster queries and time helpers, checked under QuerySpec *)

\* the known flights leaving airport a at an absolute hour in lo..hi
DepartingIn(a, lo, hi) ==
    {f \in DOMAIN flights : /\ flights[f].origin = a
                            /\ lo <= AbsHour(flights[f].departure)
                            /\ AbsHour(flights[f].departure) <= hi}

\* passengers of class cls on the flights of S
PaxOn(S, cls) == SumOver(S, [f \in S |-> flights[f].passengers[cls]])

\* C21: the destination-buffering demand query sums the passengers, per
\* class, of exactly the known flights leaving the airport at a tick d with
\* start < d <= start + window; the hub-replenishment query sums those of
\* exactly the known hub flights with start <= d <= start + window (of the
\* class asked for, when a class filter is given).
C21_DemandWindows ==
    LET start == AbsHour(probe.start)
    IN  /\ Answered("demand", "for_airport") =>
              \A cls \in Classes :
                  probe.answer["for_airport"][cls] =
                      PaxOn(DepartingIn(probe.airport, start + 1, start + probe.window), cls)
        /\ Answered("demand", "from_hub") =>
              \A cls \in Classes :
                  probe.cls_filter \in {None, cls} =>
                      probe.answer["from_hub"][cls] =
                          PaxOn(DepartingIn(HUB, start, start + probe.window), cls)

\* both queries answered for the hub with one hub flight leaving at the
\* start tick and one at the last tick of the window: the first counts only
\* the second flight, the other counts both
C21_Witness ==
    /\ Answered("demand", "for_airport")
    /\ Answered("demand", "from_hub")
    /\ probe.airport = HUB
    /\ probe.cls_filter = None
    /\ DepartingIn(HUB, AbsHour(probe.start), AbsHour(probe.start)) = {"F1"}
    /\ DepartingIn(HUB, AbsHour(probe.start) + probe.window,
                   AbsHour(probe.start) + probe.window) = {"F2"}
    /\ probe.answer["for_airport"]["FIRST"] = 2
    /\ probe.answer["from_hub"]["FIRST"] = 3

\* the queued jobs of class cls at airport a whose ready tick is at an
\* absolute hour in lo..hi
ReadyIn(a, cls, lo, hi) ==
    {i \in 1..Len(processing_queue) :
        /\ processing_queue[i].airport = a
        /\ processing_queue[i].kit_class = cls
        /\ lo <= AbsHour(processing_queue[i].ready_time)
        /\ AbsHour(processing_queue[i].ready_time) <= hi}

QuantityOf(S) == SumOver(S, [i \in S |-> processing_queue[i].quantity])

\* C22: the supply query returns, per class, the summed quantity of exactly
\* the queued jobs at the airport asked for whose ready tick r satisfies
\* start <= r <= start + window; with a class filter every other class is 0.
C22_IncomingSupply ==
    Answered("supply", "incoming") =>
        \A cls \in Classes :
            probe.answer["incoming"][cls] =
                IF probe.cls_filter \in {None, cls}
                THEN QuantityOf(ReadyIn(probe.airport, cls, AbsHour(probe.start),
                                        AbsHour(probe.start) + probe.window))
                ELSE 0

\* two FIRST jobs ready at the last tick of the window, one at the airport
\* asked for and one elsewhere: only the first is counted
C22_Witness ==
    /\ Answered("supply", "incoming")
    /\ Len(processing_queue) = 2
    /\ \A i \in 1..2 :
          /\ processing_queue[i].kit_class = "FIRST"
          /\ AbsHour(processing_queue[i].ready_time) = AbsHour(probe.start) + probe.window
    /\ processing_queue[1].airport = probe.airport
    /\ processing_queue[2].airport # probe.airport
    /\ probe.answer["incoming"]["FIRST"] = processing_queue[1].quantity
    /\ processing_queue[2].quantity > 0

\* C27: for ticks with an hour in 0..23, _time_leq(a, b) is true exactly
\* when day_a * 24 + hour_a <= day_b * 24 + hour_b.
C27_OrderIsAbsoluteOrder ==
    Answered("leq", "leq") =>
        (probe.answer["leq"] <=> (AbsHour(probe.left) <= AbsHour(probe.right)))

\* a later hour on an earlier day: the left tick is before the right one
C27_Witness ==
    /\ Answered("leq", "leq")
    /\ probe.left = <<0, 23>>
    /\ probe.right = <<1, 0>>
    /\ probe.answer["leq"] = TRUE

\* C28: _add_hours(t, d) with d >= 0 returns a (day, hour) pair whose hour
\* is in 0..23 and whose absolute hour is the absolute hour of t plus d.
C28_AddHoursNormalised ==
    Answered("add", "sum") =>
        /\ probe.answer["sum"][2] \in 0..23
        /\ probe.answer["sum"][1] >= 0
        /\ AbsHour(probe.answer["sum"]) = AbsHour(probe.reference) + probe.delta_hours

\* the last hour of a day plus two days and an hour: two rollovers
C28_Witness ==
    /\ Answered("add", "sum")
    /\ probe.reference = <<0, 23>>
    /\ probe.delta_hours = 49
    /\ probe.answer["sum"] = <<3, 0>>

-----------------------------------------------------------------------------
(* Reset of the engine, checked under EnvSpec *)

-----------------------------------------------------------------------------
(* Flights between airports the World Reference does not know *)

KnownAirport(a) == a \in DOMAIN world.airports

\* C24: a flight whose origin or destination is not an airport of the World
\* Reference gets 0 kits of every class (the Ledger is deducted by what is
\* loaded, C3), from the hub and from an outstation alike.
C24_UnknownAirportLoadsNothing ==
    AfterLoads =>
        \A i \in 1..Len(loads) :
            (~KnownAirport(InfoOf(i).origin) \/ ~KnownAirport(InfoOf(i).destination)) =>
                \A cls \in Classes : Kits(i, cls) = 0

-----------------------------------------------------------------------------
(* Partial events and negative numbers, checked under MalformedSpec *)

\* the passengers of class cls event e carries, 0 when the map or the class
\* is missing or the map is null
CarriedPax(e, cls) ==
    IF "passengers" \notin DOMAIN e THEN 0
    ELSE IF e.passengers = Null THEN 0
    ELSE IF EVENT_CLASS_KEYS[cls] \in DOMAIN e.passengers
         THEN e.passengers[EVENT_CLASS_KEYS[cls]]
    ELSE 0

\* the response carried only events that have an event kind and, when
\* recorded, an identifier
Identified ==
    \A k \in 1..Len(Updates) : "eventType" \in DOMAIN Updates[k] /\ "flightId" \in DOMAIN Updates[k]

\* C25: the engine is never left by an exception, whatever fields an event
\* lacks; a response without events is ignored; an event whose passenger map
\* is missing, null or lacks a class is recorded with 0 passengers for the
\* missing classes.
C25_NoErrorOnPartialInput ==
    /\ pc # "error"
    /\ (AfterUpdate /\ Updates = <<>>) => Cur = before
    /\ (AfterUpdate /\ Identified) =>
          \A f \in UpdatedFlights : \A cls \in Classes :
              flights[f].passengers[cls] = CarriedPax(Updates[LastRecorded(f)], cls)

\* the part of C25 that holds: whenever update_state returns, the passenger
\* counts recorded are the counts carried, 0 for what is missing
C25_MissingPassengersAreZero ==
    (AfterUpdate /\ Identified) =>
        \A f \in UpdatedFlights : \A cls \in Classes :
            flights[f].passengers[cls] = CarriedPax(Updates[LastRecorded(f)], cls)

\* C26: every quantity returned by decide_kit_loads and decide_purchases is
\* >= 0, also for negative passenger counts, capacities and stocks.
C26_QuantitiesNonNegative ==
    /\ \A i \in 1..Len(loads) : \A cls \in Classes : Kits(i, cls) >= 0
    /\ \A cls \in Classes : Order(cls) >= 0

\* the part of C26 that holds: no order is negative
C26_OrdersNonNegative == \A cls \in Classes : Order(cls) >= 0

-----------------------------------------------------------------------------
(* Order of the steps of one loop iteration *)

\* the first flight allocated at this tick left an outstation with a known
\* aircraft
FirstFromOutstation ==
    /\ AfterLoads
    /\ Len(loads) > 0
    /\ InfoOf(1).origin # HUB
    /\ KnownAircraft(1)

\* the allocation of a tick reads the Ledger as the release of that tick
\* left it: the balance before the call plus the jobs matured at the tick
AllocationReadsReleasedLedger ==
    FirstFromOutstation =>
        \A cls \in Classes :
            Kits(1, cls) =
                Min(InfoOf(1).passengers[cls],
                    Min(world.aircraft_types[InfoOf(1).aircraft_type].kit_capacity[cls],
                        StartBalance(InfoOf(1).origin, cls)))

\* the run is over: the loop was left
Ended == pc \in {"failed", "error", "finished"}

\* one step of the driver: the calls of one tick follow each other in the
\* order allocation, purchase, submission and update, the clock moves by one
\* hour between the update of a tick and the allocation of the next, and
\* nothing is called once the loop is left
StepInOrder ==
    /\ pc = "loads" =>
          /\ pc' = "purchases"
          /\ Now' = Now
          /\ flights' = flights
          /\ orders' = orders
    /\ pc = "purchases" =>
          /\ pc' = "submit"
          /\ Now' = Now
          /\ <<flights, departures, inventory, loads>>' = <<flights, departures, inventory, loads>>
    /\ pc = "submit" =>
          /\ pc' \in {"advance", "failed", "error"}
          /\ Now' = Now
          /\ <<inventory, loads, orders>>' = <<inventory, loads, orders>>
    /\ pc = "advance" =>
          /\ pc' \in {"loads", "finished"}
          /\ AbsHour(Now') = AbsHour(Now) + 1
          /\ Cur' = Cur
          /\ <<loads, orders, resp>>' = <<loads, orders, resp>>
    /\ ~Ended

\* C29: in every loop iteration the matured jobs are released, then the
\* flights of tick t are allocated, then the purchase of t is decided, then
\* both results are submitted and update_state gets the response of t; the
\* clock moves only after update_state, by one hour, so no two ticks overlap.
C29_StepsInOrder == [](AllocationReadsReleasedLedger) /\ [][StepInOrder]_vars

\* in a later iteration an outstation flight is loaded with more kits of a
\* class than the Ledger held before the call: kits released at this tick
C29_Witness ==
    /\ FirstFromOutstation
    /\ rounds >= 2
    /\ \E cls \in Classes :
          Kits(1, cls) > Balance(before.inventory, InfoOf(1).origin, cls)

-----------------------------------------------------------------------------
(* A failed round *)

\* what decide_kit_loads and then decide_purchases would return if they were
\* called once more for the current tick
LoadsAgain == decide_kit_loads(Cur, Now)

PurchasesAgain == decide_purchases(LoadsAgain, Now)

\* C30: when the submission of a tick fails, the driver calls the engine no
\* more in that run, and the engine can be used again: decide_kit_loads and
\* decide_purchases called again for the same tick load nothing, deduct
\* nothing, order nothing and queue nothing.
C30_FailedRoundLeavesEngineReusable ==
    pc = "failed" =>
        /\ ~ENABLED Next
        /\ \E again \in {LoadsAgain} :
              /\ again.loads = <<>>
              /\ again.inventory = inventory
              /\ again.processing_queue = processing_queue
        /\ \E again \in {PurchasesAgain} :
              /\ again.orders = create_per_class_amount(0, 0, 0, 0)
              /\ again.processing_queue = processing_queue

\* the submission failed at a tick whose allocation loaded kits and whose
\* purchase ordered kits
C30_Witness ==
    /\ pc = "failed"
    /\ \E i \in 1..Len(loads) : \E cls \in Classes : Kits(i, cls) > 0
    /\ \E cls \in Classes : Order(cls) > 0
    /\ LoadsAgain.loads = <<>>

-----------------------------------------------------------------------------
\* kits of class cls in the ledger inv, over all airports
InLedger(inv, cls) == SumOver(DOMAIN inv, [a \in DOMAIN inv |-> inv[a][cls]])

\* kits of class cls in the jobs of queue q
InQueue(q, cls) ==
    LET J == {k \in 1..Len(q) : q[k].kit_class = cls}
    IN  SumOver(J, [k \in J |-> q[k].quantity])

\* kits of class cls the engine state st accounts for
Held(st, cls) == InLedger(st.inventory, cls) + InQueue(st.processing_queue, cls)

\* every flight the last decide_kit_loads call allocated goes to an airport of
\* the World Reference
DestinationsKnown ==
    \A i \in 1..Len(loads) : InfoOf(i).destination \in DOMAIN world.airports

\* C31: Ledger plus queued quantities are conserved, per class and so in
\* total: a decide_kit_loads call whose departing flights all go to known
\* airports leaves the sum of all Ledger balances and all queued quantities
\* as it was, decide_purchases raises it by exactly the order it returns, and
\* update_state leaves it as it was; so the sum always equals the initial
\* stock plus the orders returned so far.
C31_KitConservation ==
    /\ (AfterLoads /\ DestinationsKnown) =>
          \A cls \in Classes : Held(Cur, cls) = Held(before, cls)
    /\ AfterPurchases =>
          \A cls \in Classes : Held(Cur, cls) = Held(before, cls) + Order(cls)
    /\ AfterUpdate =>
          \A cls \in Classes : Held(Cur, cls) = Held(before, cls)

\* reached: one call released a matured job into the Ledger and loaded a
\* flight to a known airport, moving kits from the Ledger to the Queue
C31_Witness ==
    /\ AfterLoads
    /\ DestinationsKnown
    /\ \E a \in DOMAIN world.airports : \E cls \in Classes : Matured(a, cls) > 0
    /\ \E i \in 1..Len(loads) : \E cls \in Classes :
          /\ Kits(i, cls) > 0
          /\ InQueue(processing_queue, cls) > InQueue(before.processing_queue, cls)
          /\ InLedger(inventory, cls) < InLedger(before.inventory, cls)

\* reached: one decide_purchases call ordered kits, which are now queued
C31_WitnessPurchase ==
    /\ AfterPurchases
    /\ \E cls \in Classes :
          /\ Order(cls) > 0
          /\ Held(Cur, cls) > Held(before, cls)

-----------------------------------------------------------------------------
\* job is tagged with flight f, which the Registry fl knows, and is located at
\* the destination fl records for f
AtRecordedDestination(fl, job, f) ==
    /\ job.flight_id = f
    /\ f \in DOMAIN fl
    /\ job.airport = fl[f].destination

\* the ready tick of job is the arrival fl records for f + the processing time
\* of the job's class at the job's airport + the safety margin
ReadyFollowsArrival(fl, job, f) ==
    job.ready_time =
        TickOf(AbsHour(fl[f].arrival) + ProcessingTimeOf(job.airport, job.kit_class)
               + safety_margin)

\* every event the server can send for flight f carries the same destination
DestinationFixed(f) ==
    \A e1, e2 \in pool :
        (e1.flightId = f /\ e2.flightId = f)
        => e1.destinationAirport = e2.destinationAirport

\* every event of the last response for flight f carries the destination the
\* Registry recorded for f before the response
KeepsDestination(f) ==
    /\ f \in DOMAIN before.flights
    /\ \A k \in RecordedFor(f) :
          Updates[k].destinationAirport = before.flights[f].destination

-----------------------------------------------------------------------------
\* a job tagged with flight f was queued before the last call: f was loaded
\* by an earlier decide_kit_loads call (only an allocation of f tags a job f)
AllocatedEarlier(f) ==
    \E k \in 1..Len(before.processing_queue) : before.processing_queue[k].flight_id = f

\* C33: each flight identifier is allocated by at most one decide_kit_loads
\* call of a run, also when events move its departure tick: a flight that
\* gets a load record with a positive quantity was not loaded by an earlier
\* call.
C33_AllocatedAtMostOnce ==
    AfterLoads =>
        \A i \in 1..Len(loads) :
            (\E cls \in Classes : Kits(i, cls) > 0) => ~AllocatedEarlier(loads[i].flightId)

-----------------------------------------------------------------------------
\* the Registry fl without the flights that depart airport a
NoDeparturesFrom(fl, a) == [f \in {g \in DOMAIN fl : fl[g].origin # a} |-> fl[f]]

\* the Registry fl with more passengers of every class on each flight that
\* departs airport a
MoreDemandFrom(fl, a) ==
    [f \in DOMAIN fl |->
        IF fl[f].origin # a THEN fl[f]
        ELSE [fl[f] EXCEPT !.passengers = [cls \in Classes |-> @[cls] + window_hours]]]

\* the Ledger the allocation loop of the current tick starts with
ReleasedLedger == _release_completed_processing(inventory, processing_queue, Now).inventory

\* the hub flights of a known aircraft type indexed at the current tick
HubFlightsNow ==
    {f \in DOMAIN flights :
        /\ \E i \in 1..Len(Indexed(departures, Now)) : Indexed(departures, Now)[i] = f
        /\ flights[f].origin = HUB
        /\ flights[f].aircraft_type \in DOMAIN world.aircraft_types}

\* the load computed for hub flight f from the Registry fl
HubLoadFrom(fl, f) ==
    LoadPerClass(fl, ReleasedLedger, flights[f],
                 world.aircraft_types[flights[f].aircraft_type])

\* C34: the load of a hub flight of a known aircraft type is min(cap, hub
\* stock, max(0, destination capacity - destination balance), pax) for every
\* class, whatever the forecast need of the destination is: the same load is
\* computed when the flights departing the destination are removed from the
\* Registry or carry more passengers.
C34_HubLoadIgnoresForecast ==
    /\ AfterLoads =>
          \A i \in 1..Len(loads) : \A cls \in Classes :
              HubRecord(i) =>
                  Kits(i, cls) =
                      Min(Min(world.aircraft_types[InfoOf(i).aircraft_type].kit_capacity[cls],
                              LiveBalance(HUB, i, cls)),
                          Min(Max(0, CapacityOf(InfoOf(i).destination, cls)
                                     - LiveBalance(InfoOf(i).destination, i, cls)),
                              InfoOf(i).passengers[cls]))
    /\ pc = "loads" =>
          \A f \in HubFlightsNow : \E load \in {HubLoadFrom(flights, f)} :
              /\ HubLoadFrom(NoDeparturesFrom(flights, flights[f].destination), f) = load
              /\ HubLoadFrom(MoreDemandFrom(flights, flights[f].destination), f) = load

\* reached: a hub flight was loaded with exactly its passengers while the
\* flights departing its destination need more than the destination holds,
\* so that required > pax
C34_Witness ==
    /\ AfterLoads
    /\ \E i \in 1..Len(loads) : \E cls \in Classes :
          /\ HubRecord(i)
          /\ ForecastNeed(InfoOf(i).destination, InfoOf(i).arrival, cls)
                 > LiveBalance(InfoOf(i).destination, i, cls)
          /\ Required(i, cls) > InfoOf(i).passengers[cls]
          /\ Kits(i, cls) = InfoOf(i).passengers[cls]
          /\ Kits(i, cls) > 0

-----------------------------------------------------------------------------
\* a second decide_purchases call at the current tick, right after the first
SecondPurchase == decide_purchases(Cur, Now)

\* positions of the queued hub purchase jobs (the jobs without a flight tag)
PurchaseJobsQueued == {k \in 1..Len(processing_queue) : processing_queue[k].flight_id = None}

\* queue q without its k-th job
WithoutJob(q, k) == SubSeq(q, 1, k - 1) \o SubSeq(q, k + 1, Len(q))

\* the k-th queued job is part of the incoming supply decide_purchases finds
\* for the job's class at the current tick
CountedAsIncoming(k) ==
    LET job == processing_queue[k]
        wh == purchase_horizon[job.kit_class]
    IN  _incoming_kits(processing_queue, HUB, Now, wh, job.kit_class)[job.kit_class]
            = _incoming_kits(WithoutJob(processing_queue, k), HUB, Now, wh,
                             job.kit_class)[job.kit_class]
              + job.quantity

\* C35: a second decide_purchases call at the same tick, right after the
\* first, returns 0 for every class and enqueues nothing; and at every tick,
\* when decide_purchases has run, every queued hub purchase job, ordered at
\* this tick or at an earlier one, is counted in the incoming supply of its
\* class, its ready tick being between the tick and the tick + the class
\* horizon.
C35_NoDoubleOrdering ==
    /\ AfterPurchases =>
          \E second \in {SecondPurchase} :
              /\ second.orders = create_per_class_amount(0, 0, 0, 0)
              /\ second.processing_queue = processing_queue
    /\ AfterPurchases =>
          \A k \in PurchaseJobsQueued :
              /\ CountedAsIncoming(k)
              /\ AbsHour(Now) <= AbsHour(processing_queue[k].ready_time)
              /\ AbsHour(processing_queue[k].ready_time)
                     <= AbsHour(Now) + purchase_horizon[processing_queue[k].kit_class]
    /\ \A cls \in Classes : lead_times[cls] <= purchase_horizon[cls]

\* reached: a call ordered less than the shortfall of a class because of the
\* hub capacity, and another class up to its target, while a purchase of an
\* earlier tick was still queued; the second call would order nothing
C35_Witness ==
    /\ AfterPurchases
    /\ \E cls \in Classes :
          /\ Order(cls) > 0
          /\ Order(cls) < TargetBefore(cls) - ProjectedBefore(cls)
    /\ \E cls \in Classes :
          /\ Order(cls) > 0
          /\ Order(cls) = TargetBefore(cls) - ProjectedBefore(cls)
    /\ \E k \in PurchaseJobsQueued :
          /\ k <= Len(before.processing_queue)
          /\ AbsHour(processing_queue[k].ready_time)
                 < AbsHour(Now) + lead_times[processing_queue[k].kit_class]
    /\ SecondPurchase.orders = create_per_class_amount(0, 0, 0, 0)

-----------------------------------------------------------------------------
\* event is a schedule announcement or a check-in refinement
Announces(event) == event.eventType \in {"SCHEDULED", "CHECKED_IN"}

\* the schedule and check-in events of the last response, in order
RecordedUpdates == SelectSeq(Updates, Announces)

\* the events of the last response of another kind, such as a landing
OtherKinds == {k \in 1..Len(Updates) : ~Announces(Updates[k])}

\* C36: update_state never changes the Ledger; the events of a kind other
\* than schedule announcement and check-in refinement have no effect: the
\* call leaves Registry, index, Ledger and Queue as the response without
\* those events would, and unchanged when the response has no other event;
\* no operation removes a record from the Registry.
C36_OtherKindsIgnored ==
    /\ AfterUpdate =>
          /\ inventory = before.inventory
          /\ Cur = RecordEvents(before, RecordedUpdates)
          /\ RecordedUpdates = <<>> => Cur = before
          /\ \A f \in DOMAIN before.flights : f \in DOMAIN flights
    /\ (AfterLoads \/ AfterPurchases) =>
          \A f \in DOMAIN before.flights : f \in DOMAIN flights /\ flights[f] = before.flights[f]
    /\ AfterPurchases =>
          \A event \in pool : ~Announces(event) => RecordEvent(Cur, event) = Cur

\* reached: a response carried only the landing event of an allocated flight,
\* with an arrival and passenger counts that differ from the recorded ones,
\* while jobs tagged with the flight were queued; nothing changed
C36_Witness ==
    /\ AfterUpdate
    /\ Len(Updates) = 1
    /\ OtherKinds = {1}
    /\ Updates[1].flightId \in DOMAIN flights
    /\ flights[Updates[1].flightId].arrival # Updates[1].arrival
    /\ flights[Updates[1].flightId].destination = Updates[1].destinationAirport
    /\ flights[Updates[1].flightId].passengers["BUSINESS"] # Updates[1].passengers.business
    /\ \E k \in 1..Len(processing_queue) : processing_queue[k].flight_id = Updates[1].flightId
    /\ Cur = before

-----------------------------------------------------------------------------
\* the loop of run_simulation was left
LoopEnded == pc \in {"finished", "failed"}

\* what holds in every state of a run from tick (0, 0)
ClockInRange ==
    /\ current_hour \in 0..23
    /\ current_day >= 0
    /\ rounds \in 1..TOTAL_GAME_HOURS
    /\ AbsHour(Now) <= TOTAL_GAME_HOURS
    /\ pc \in {"loads", "purchases", "submit", "advance", "failed"}
          => rounds = AbsHour(Now) + 1
    /\ pc = "finished" => (AbsHour(Now) = TOTAL_GAME_HOURS /\ rounds = TOTAL_GAME_HOURS)
    /\ pc = "failed" => resp = NoResponse
    /\ LoopEnded <=> ~ENABLED LoopNext

\* one step of the run: the clock moves only at the end of an iteration, by
\* one absolute hour, hour 23 being followed by hour 0 of the next day
ClockStep ==
    /\ pc # "advance" => Now' = Now
    /\ pc = "advance" =>
          /\ AbsHour(Now') = AbsHour(Now) + 1
          /\ current_hour = 23 => (current_hour' = 0 /\ current_day' = current_day + 1)
          /\ current_hour < 23 => (current_hour' = current_hour + 1
                                   /\ current_day' = current_day)

\* C37: the driver loop started at tick (0, 0) is left after at most 720
\* iterations: in every state the hour is in 0..23 and the iteration count is
\* the absolute hour + 1, each iteration moves the clock by exactly one
\* absolute hour (hour 23 is followed by hour 0 of the next day), and the run
\* ends, either with the absolute hour at 720 or at the first failed round.
C37_LoopTerminates ==
    /\ <>LoopEnded
    /\ []ClockInRange
    /\ [][ClockStep]_vars

\* reached: the loop was left after 720 iterations, at day 30, hour 0
C37_Witness ==
    /\ pc = "finished"
    /\ Now = <<30, 0>>
    /\ rounds = TOTAL_GAME_HOURS

\* reached: the loop was left at a failed round in the last hour of a day
C37_WitnessFailed ==
    /\ pc = "failed"
    /\ current_hour = 23
    /\ current_day > 0

=============================================================================
